---- MODULE Spec2Model ----
(***************************************************************************)
(* A model of the FastPay NFC terminal scripts.                            *)
(*                                                                         *)
(* Part 1: NFCReader (terminal/scripts/nfc_reader.py), the supervisor that *)
(* connects to the PN532, polls for tags, debounces taps, emits heartbeats *)
(* and reconnects with exponential backoff.                                *)
(*                                                                         *)
(* Time.  The monotonic clock is counted in tenths of a second (ds), the   *)
(* coarsest unit in which every timing constant of the script is a whole   *)
(* number.  The script only ever uses differences of clock readings, so    *)
(* the model stores the differences: hb_age = now - last_heartbeat, the    *)
(* age now - tap['time'] of every dedup record, and until_end = end_time - *)
(* now of the backoff sleep.  Time passes in time.sleep and in the         *)
(* blocking hardware calls; every other statement is instantaneous.        *)
(*                                                                         *)
(* Signals.  CPython runs a signal handler on the main thread between two  *)
(* bytecodes, so HandleShutdown may run between any two steps of the main  *)
(* program.  The handler body itself is one step.                          *)
(***************************************************************************)
EXTENDS Integers, Sequences, FiniteSets, TLC

\* ------------------------------------------------------------ constants
\* Timing constants of the script, in tenths of a second.
SERIAL_TIMEOUT_DS == 10
SIGNAL_STABILIZE_DELAY_DS == 2
NFC_SCAN_TIMEOUT_DS == 5
HEARTBEAT_INTERVAL_DS == 300
BACKOFF_CHECK_INTERVAL_DS == 5
MAX_RETRIES == 5

\* ------------------------------------------------------------ bounds
\* Largest NFC_DEDUP_BUFFER_SIZE the environment sets.
MaxDedupSize == 2

\* UIDs (byte strings) that tags report.
UIDs == {<<4>>, <<171>>}
\* Values of NFC_TAP_DEBOUNCE_MS the environments set (1000 is the default; 3000 is
\* longer than the shortest reconnection, a backoff of 2 s and the 0.2 s delay).
DebounceChoices == {1000, 3000}

\* An environment: the tags that come into the field, the settings the process is
\* started with, and when exceptions from the hardware (trouble) and shutdown signals
\* can come: "always", or only "until ready" (until the first successful
\* initialization).
\* The supervisor's environment: trouble and signals at any time, one tag.
EnvSupervisor ==
    [uids |-> {<<4>>}, sizes |-> {-1, 1}, debounces |-> {1000}, trouble |-> "always",
     signals |-> "always"]
\* The environment of a shutdown: signals at any time, hardware that works once it
\* has been initialized.
EnvShutdown ==
    [uids |-> {<<4>>}, sizes |-> {1}, debounces |-> {1000}, trouble |-> "until ready",
     signals |-> "always"]
\* The debouncer's environment: every tag and every buffer size, no trouble once the
\* reader is ready.
EnvTaps ==
    [uids |-> UIDs, sizes |-> 0 .. MaxDedupSize, debounces |-> {1000},
     trouble |-> "until ready", signals |-> "until ready"]
\* A reconnection: a long debounce window, trouble at any time.
EnvReconnect ==
    [uids |-> {<<4>>}, sizes |-> {1}, debounces |-> DebounceChoices \ {1000},
     trouble |-> "always", signals |-> "until ready"]
\* Time a poll takes to find a tag that is in the field.
TagDelays == {0, NFC_SCAN_TIMEOUT_DS}
\* Time a failing hardware exchange takes before it raises.
FailDelays == {0, SERIAL_TIMEOUT_DS}

Min(a, b) == IF a < b THEN a ELSE b

\* ------------------------------------------------------------ pure helpers
HexDigits == <<"0", "1", "2", "3", "4", "5", "6", "7",
               "8", "9", "A", "B", "C", "D", "E", "F">>

\* uid.hex().upper(): two upper-case hex digits per byte.
RECURSIVE HexUpper(_)
HexUpper(bytes) ==
    IF bytes = <<>> THEN <<>>
    ELSE <<HexDigits[(Head(bytes) \div 16) + 1], HexDigits[(Head(bytes) % 16) + 1]>>
         \o HexUpper(Tail(bytes))

UidHexes == {HexUpper(u) : u \in UIDs}

\* self.config['debounce_ms'] / 1000, in tenths of a second.
DebounceDs(cfg) == cfg.debounce_ms \div 100

\* A deque that drops its newest item instead of its oldest.
DequeAppend_DropsNewest(buf, maxlen, x) ==
    IF maxlen = 0 THEN <<>>
    ELSE IF Len(buf) >= maxlen THEN Append(SubSeq(buf, 1, Len(buf) - 1), x)
    ELSE Append(buf, x)

\* deque(maxlen=n).append(x): a full deque drops its oldest (leftmost) item;
\* a deque of maxlen 0 stays empty.
DequeAppend(buf, maxlen, x) ==
    IF maxlen = 0 THEN <<>>
    ELSE IF Len(buf) >= maxlen THEN Append(Tail(buf), x)
    ELSE Append(buf, x)

\* A check that looks at the newest record only.
IsDuplicateTap_NewestOnly(buf, uid_hex, debounce) ==
    /\ buf # <<>>
    /\ buf[Len(buf)].uid = uid_hex
    /\ buf[Len(buf)].age < debounce

\* _is_duplicate_tap: some retained record has this uid and is younger than the window.
IsDuplicateTap(buf, uid_hex, debounce) ==
    \E i \in DOMAIN buf : buf[i].uid = uid_hex /\ buf[i].age < debounce

\* A test with > for >=.
HeartbeatDue_Strict(age) == age > HEARTBEAT_INTERVAL_DS

\* _send_heartbeat_if_needed's test.
HeartbeatDue(age) == age >= HEARTBEAT_INTERVAL_DS

\* A ceiling test that is off by one.
CeilingReached_OffByOne(rc) == rc > MAX_RETRIES

\* _handle_retry's ceiling test.
CeilingReached(rc) == rc >= MAX_RETRIES

\* A linear backoff.
WaitTime_Linear(rc) == 10 * (2 * rc)

\* wait_time = 2 ** self.retry_count (seconds), in tenths of a second.
WaitTime(rc) == 10 * (2 ^ rc)

\* An exit status that forgets the retry ceiling.
ExitCode_FatalOnly(fe, rc) == IF fe THEN 1 ELSE 0

\* exit_code = 1 if (self.fatal_exit or self.retry_count >= MAX_RETRIES) else 0
ExitCode(fe, rc) == IF fe \/ rc >= MAX_RETRIES THEN 1 ELSE 0

\* ------------------------------------------------------------ PN532 frames
\* Part 2: the frame encoders and decoders of the test scripts
\* (test/card-emulation-raw.py, card-emulation-hybrid.py, test-nfc-with-ack.py,
\* test-nfc-exact-sequence.py).  A frame is a sequence of bytes (0 .. 255); the serial
\* line is the sequence of bytes waiting to be read, and ser.read(n) returns the next n
\* of them, or fewer when the line runs dry before the timeout.

\* TFI, host to PN532.
TFI_HOST == 212
\* Most parameter bytes of a command the model builds.
MaxParams == 2
\* Command codes (GetFirmwareVersion, SAMConfiguration, TgInitAsTarget) and parameter
\* bytes the scripts send.
Opcodes == {2, 20, 140}
ParamBytes == {0, 1, 20, 255}
\* Amounts by which a damaged checksum byte differs from the right one (mod 256).
Damages == {1, 128, 255}

\* sum(bytes), by halves (a frame may carry over 250 bytes).
RECURSIVE SumRange(_, _, _)
SumRange(bytes, lo, hi) ==
    IF lo > hi THEN 0
    ELSE IF lo = hi THEN bytes[lo]
    ELSE LET mid == (lo + hi) \div 2
         IN  SumRange(bytes, lo, mid) + SumRange(bytes, mid + 1, hi)

Sum(bytes) == SumRange(bytes, 1, Len(bytes))

RECURSIVE SeqsUpTo(_, _)
SeqsUpTo(S, n) ==
    IF n = 0 THEN {<<>>}
    ELSE LET shorter == SeqsUpTo(S, n - 1)
         IN  shorter \cup {Append(q, b) : q \in shorter, b \in S}

\* ~x on a Python int.
Invert(x) == 0 - x - 1
\* x & 0xFF on a Python int (negative ones included).
Low8(x) == x % 256

\* card-emulation-raw.py send_command: the frame it writes.
SendCommandRaw(command_code, params) ==
    LET length == Len(params) + 2
        dcs == Low8(Invert(TFI_HOST + command_code + Sum(params)) + 1)
    IN  <<0, 0, 255, length, Low8(Invert(length) + 1), TFI_HOST, command_code>>
        \o params \o <<dcs, 0>>

\* card-emulation-hybrid.py send_command: the frame it writes.
SendCommandHybrid(command_code, params) ==
    LET length == Len(params) + 2
        dcs == Low8(Invert(TFI_HOST + command_code + Sum(params)) + 1)
    IN  <<0, 0, 255, length, Low8(Invert(length) + 1), TFI_HOST, command_code>>
        \o params \o <<dcs, 0>>

\* A data checksum that is the one's complement of the sum.
DataChecksumAck_OnesComplement(command_data) ==
    Low8(255 - (TFI_HOST + Sum(command_data)))

\* test-nfc-with-ack.py send_command: dcs = (0x100 - (tfi + sum(command_data))) & 0xFF
DataChecksumAck(command_data) ==
    Low8(256 - (TFI_HOST + Sum(command_data)))

\* test-nfc-with-ack.py send_command: the frame it writes and returns; command_data is
\* the command code followed by the parameters.
SendCommandAck(command_data) ==
    LET length == Len(command_data) + 1
        lcs == Low8(256 - length)
    IN  <<0, 0, 255, length, lcs, TFI_HOST>> \o command_data
        \o <<DataChecksumAck(command_data), 0>>

\* ser.read(n) with i - 1 bytes of the line already read.
SerRead(line, i, n) == SubSeq(line, i, Min(i + n - 1, Len(line)))

\* "Wait for preamble" of read_response: read one byte; on 00 read two more and stop
\* if they are 00 FF.  The position after the preamble, or 0 when the line runs dry
\* (the deadline passes).
RECURSIVE FindPreamble(_, _)
FindPreamble(line, i) ==
    LET byte == SerRead(line, i, 1) IN
    IF byte = <<>> THEN 0
    ELSE IF byte = <<0>>
    THEN LET two == SerRead(line, i + 1, 2) IN
         IF two = <<0, 255>> THEN i + 3 ELSE FindPreamble(line, i + 1 + Len(two))
    ELSE FindPreamble(line, i + 1)

\* "Find preamble" of read_frame: the same scan with three reads of one byte.
RECURSIVE FindPreambleBytewise(_, _)
FindPreambleBytewise(line, i) ==
    LET byte1 == SerRead(line, i, 1) IN
    IF byte1 = <<>> THEN 0
    ELSE IF byte1 = <<0>>
    THEN LET byte2 == SerRead(line, i + 1, 1)
             byte3 == SerRead(line, i + 1 + Len(byte2), 1)
         IN  IF byte2 = <<0>> /\ byte3 = <<255>> THEN i + 3
             ELSE FindPreambleBytewise(line, i + 1 + Len(byte2) + Len(byte3))
    ELSE FindPreambleBytewise(line, i + 1)

\* What a decoder returns: None, or the payload.
None == [ok |-> FALSE, payload |-> <<>>]
Payload(bytes) == [ok |-> TRUE, payload |-> bytes]

\* data[1:-1]
StripTfiDcs(data) == SubSeq(data, 2, Len(data) - 1)

\* card-emulation-raw.py read_response
ReadResponseRaw(line) ==
    LET at == FindPreamble(line, 1) IN
    IF at = 0 THEN None
    ELSE LET length == SerRead(line, at, 1)
             lcs == SerRead(line, at + 1, 1)
         IN  IF length = <<>> THEN None
             ELSE IF lcs = <<>> THEN None
             ELSE IF Low8(length[1] + lcs[1]) # 0 THEN None
             ELSE LET data == SerRead(line, at + 2, length[1] + 1) IN
                  IF Len(data) # length[1] + 1 THEN None
                  ELSE Payload(StripTfiDcs(data))

\* card-emulation-hybrid.py read_response
ReadResponseHybrid(line) ==
    LET at == FindPreamble(line, 1) IN
    IF at = 0 THEN None
    ELSE LET length == SerRead(line, at, 1)
             lcs == SerRead(line, at + 1, 1)
         IN  IF length = <<>> THEN None
             ELSE IF lcs = <<>> THEN None
             ELSE IF Low8(length[1] + lcs[1]) # 0 THEN None
             ELSE LET data == SerRead(line, at + 2, length[1] + 1) IN
                  IF Len(data) # length[1] + 1 THEN None
                  ELSE Payload(StripTfiDcs(data))

\* A read_frame that strips the checksum but keeps the TFI.
ReadFrameAck_KeepsTfi(line) ==
    LET at == FindPreambleBytewise(line, 1) IN
    IF at = 0 THEN None
    ELSE LET length_bytes == SerRead(line, at, 2) IN
         IF Len(length_bytes) # 2 THEN None
         ELSE IF Low8(length_bytes[1] + length_bytes[2]) # 0 THEN None
         ELSE LET data == SerRead(line, at + 2, length_bytes[1] + 1) IN
              IF Len(data) # length_bytes[1] + 1 THEN None
              ELSE Payload(SubSeq(data, 1, Len(data) - 1))

\* test-nfc-with-ack.py read_frame
ReadFrameAck(line) ==
    LET at == FindPreambleBytewise(line, 1) IN
    IF at = 0 THEN None
    ELSE LET length_bytes == SerRead(line, at, 2) IN
         IF Len(length_bytes) # 2 THEN None
         ELSE IF Low8(length_bytes[1] + length_bytes[2]) # 0 THEN None
         ELSE LET data == SerRead(line, at + 2, length_bytes[1] + 1) IN
              IF Len(data) # length_bytes[1] + 1 THEN None
              ELSE Payload(StripTfiDcs(data))

\* test-nfc-exact-sequence.py read_frame: the length checksum is read, not verified.
ReadFrameExact(line) ==
    LET at == FindPreambleBytewise(line, 1) IN
    IF at = 0 THEN None
    ELSE LET length_bytes == SerRead(line, at, 2) IN
         IF Len(length_bytes) # 2 THEN None
         ELSE LET data == SerRead(line, at + 2, length_bytes[1] + 1) IN
              IF Len(data) # length_bytes[1] + 1 THEN None
              ELSE Payload(StripTfiDcs(data))


\* ------------------------------------------------------------ command execution
\* The exchange around a frame: what send_command does to the port, what the chip sends
\* back, and how the scripts read it.

\* Most noise bytes the chip's answer carries before the response frame.
MaxNoise == 3
\* Longest parameter sequence a command is issued with.
MaxLongParams == 255
\* TFI, PN532 to host.
TFI_CHIP == 213

\* A bytearray.append that accepts every integer.
FitsByte_Unchecked(x) == TRUE

\* frame.append(length): bytearray.append raises ValueError unless 0 <= x < 256.
FitsByte(x) == x >= 0 /\ x < 256

\* read_ack's target: the ACK frame.
AckTarget == <<0, 0, 255, 0, 255, 0>>

\* `target in buf` on bytes.
Contains(buf, target) ==
    \E i \in 1..(Len(buf) - Len(target) + 1) :
       SubSeq(buf, i, i + Len(target) - 1) = target

\* The response frame the chip sends for payload `payload` (response code, then data),
\* in the layout read_response takes apart: preamble, LEN, LCS, TFI, payload, DCS,
\* postamble.
ResponseFrame(payload) ==
    LET length == Len(payload) + 1
    IN  <<0, 0, 255, length, Low8(256 - length), TFI_CHIP>> \o payload
        \o <<Low8(256 - (TFI_CHIP + Sum(payload))), 0>>

\* Payloads the chip answers with: GetFirmwareVersion's, SAMConfiguration's.
Responses == {<<3, 50, 1, 6, 7>>, <<21>>}
\* Bytes before the response frame: line noise and extra 00 bytes.
Noises == SeqsUpTo({0, 85}, MaxNoise)
\* A response (TgGetData's, with one byte of data) left over from an earlier command.
StalePayload == <<135, 0, 144>>
\* What the receive buffer may hold when a command is issued.
Stales == {<<>>, <<85>>, ResponseFrame(StalePayload)}
\* Parameter sequences of a command: short ones, and long ones around the limit of
\* the length byte.
LongLengths == {n \in {0, 1, 252, 253, 254, 255, 256} : n <= MaxLongParams}
CommandParams == {[i \in 1..n |-> 1] : n \in LongLengths}

\* ------------------------------------------------------------ card emulation
\* The listening loop and the session loop of card-emulation-raw.py,
\* card-emulation-hybrid.py and card-emulation-simple.py.

\* Length of the payment text (json.dumps(payment, separators=(',', ':'))).
PaymentLen == 100
\* Most taps and most commands of a session the model follows.
MaxTaps == 2
MaxCommands == 3
\* READ BINARY chunk of raw and hybrid (ndef_msg[:50]) and of simple (ndef_message[:20]).
ChunkRaw == 50
ChunkSimple == 20

\* The bytes of the payment text: printable ASCII, every byte different from its
\* neighbours.
PaymentText == [i \in 1..PaymentLen |-> 32 + (i % 95)]

\* create_ndef_text: D1 01 <len + 3> 54 02 'e' 'n' text.
CreateNdefText(text_bytes) ==
    <<209, 1, Len(text_bytes) + 3, 84, 2, 101, 110>> \o text_bytes

\* x[:n]
Take(x, n) == SubSeq(x, 1, Min(n, Len(x)))

\* APDU status words.
SwOk == <<144, 0>>
SwNotSupported == <<106, 130>>

\* "Skip status byte if present": a leading 00 is dropped (raw l.223-224, hybrid
\* l.294-295).
StripStatus(cmd) == IF cmd[1] = 0 THEN Tail(cmd) ELSE cmd

\* A session loop that answers data too short to parse with 6A 82.
ReplyRaw_AnswersShort(cmd, ndef_msg) ==
    LET apdu == StripStatus(cmd) IN
    IF Len(apdu) < 2 THEN SwNotSupported
    ELSE IF apdu[2] = 164 THEN SwOk
    ELSE IF apdu[2] = 176 THEN Take(ndef_msg, ChunkRaw) \o SwOk
    ELSE SwNotSupported

\* The session loop of card-emulation-raw.py, from the inbound data to the reply
\* handed to tg_set_data: a leading 00 is taken for a status byte and dropped, the
\* second byte of what is left is the instruction.  <<>> when nothing is sent.
ReplyRaw(cmd, ndef_msg) ==
    LET apdu == IF cmd[1] = 0 THEN Tail(cmd) ELSE cmd IN
    IF Len(apdu) < 2 THEN <<>>
    ELSE IF apdu[2] = 164 THEN SwOk
    ELSE IF apdu[2] = 176 THEN Take(ndef_msg, ChunkRaw) \o SwOk
    ELSE SwNotSupported

\* The same of card-emulation-hybrid.py.
ReplyHybrid(cmd, ndef_message) ==
    LET apdu == IF cmd[1] = 0 THEN Tail(cmd) ELSE cmd IN
    IF Len(apdu) < 2 THEN <<>>
    ELSE IF apdu[2] = 164 THEN SwOk
    ELSE IF apdu[2] = 176 THEN Take(ndef_message, ChunkRaw) \o SwOk
    ELSE SwNotSupported

\* The same of card-emulation-simple.py: no byte is dropped.
ReplySimple(received, ndef_message) ==
    IF Len(received) < 2 THEN <<>>
    ELSE IF received[2] = 164 THEN SwOk
    ELSE IF received[2] = 176 THEN Take(ndef_message, ChunkSimple) \o SwOk
    ELSE SwNotSupported

\* The reply of script `s` to inbound data `data`.
Reply(s, data, ndef) ==
    CASE s = "raw" -> ReplyRaw(data, ndef)
      [] s = "hybrid" -> ReplyHybrid(data, ndef)
      [] s = "simple" -> ReplySimple(data, ndef)

\* APDUs the phone sends: SELECT (with a data byte), READ BINARY, GET DATA.
SelectApdu == <<0, 164, 4, 0, 7>>
ReadBinaryApdu == <<0, 176, 0, 0>>
Apdus == {SelectApdu, ReadBinaryApdu, <<0, 202, 0, 0>>}
\* Inbound data: an APDU, bare or after a status byte 00, or too short to parse
\* (nothing or one byte after the status byte).
Inbound == Apdus \cup {<<0>> \o a : a \in Apdus} \cup {<<0>>, <<128>>, <<0, 164>>}
\* The emulation scripts.
Emulators == {"raw", "hybrid", "simple"}

\* ------------------------------------------------------------ NDEF messages
\* create_ndef_text_record and create_ndef_message of write-ndef-formatted.py and
\* write-ndef-smart.py, on the UTF-8 bytes of the text.

\* Longest text (in bytes) a message is built for.
MaxTextLen == 253

\* The texts: one of every length, printable ASCII.
Texts == {[i \in 1..n |-> 32 + (i % 95)] : n \in 0..MaxTextLen}

\* language = b'\x02en'
Language == <<2, 101, 110>>

\* A record whose payload length leaves out the language bytes.
CreateNdefTextRecordFormatted_TextOnly(text_bytes) ==
    <<209, 1, Len(text_bytes), 84>> \o Language \o text_bytes

\* write-ndef-formatted.py create_ndef_text_record: header D1, type length 1, payload
\* length, type 'T', payload (language + text).
CreateNdefTextRecordFormatted(text_bytes) ==
    LET payload == Language \o text_bytes
    IN  <<209, 1, Len(payload), 84>> \o payload

\* write-ndef-smart.py create_ndef_text_record
CreateNdefTextRecordSmart(text_bytes) ==
    LET payload == Language \o text_bytes
    IN  <<209, 1, Len(payload), 84>> \o payload

\* write-ndef-formatted.py create_ndef_message: 03, the length of the record in one
\* byte (below 255) or as FF and two bytes, the record, FE.
CreateNdefMessageFormatted(text_bytes) ==
    LET ndef_record == CreateNdefTextRecordFormatted(text_bytes)
        length == IF Len(ndef_record) < 255
                  THEN <<Len(ndef_record)>>
                  ELSE <<255, Len(ndef_record) \div 256, Len(ndef_record) % 256>>
    IN  <<3>> \o length \o ndef_record \o <<254>>

\* A message without the terminator.
CreateNdefMessageSmart_NoTerminator(text_bytes) ==
    LET ndef_record == CreateNdefTextRecordSmart(text_bytes)
    IN  <<3, Len(ndef_record)>> \o ndef_record

\* write-ndef-smart.py create_ndef_message: 03, the length of the record in one byte,
\* the record, FE.
CreateNdefMessageSmart(text_bytes) ==
    LET ndef_record == CreateNdefTextRecordSmart(text_bytes)
    IN  <<3, Len(ndef_record)>> \o ndef_record \o <<254>>

\* The text is short enough for one-byte lengths: the record is shorter than 255
\* bytes (write-ndef-formatted.py l.75).
ShortForm(text_bytes) == Len(text_bytes) + 7 < 255

\* ------------------------------------------------------------ state
VARIABLES
    env,                \* the environment of this run (never changes)
    pc,                 \* position of the main program
    config,             \* self.config (debounce_ms, dedup_buffer_size); zeros before it is loaded
    shutdown_requested, \* self.shutdown_requested
    fatal_exit,         \* self.fatal_exit
    retry_count,        \* self.retry_count
    uart,               \* self.uart: "None" or "Serial"
    pn532,              \* self.pn532: "None" or "PN532"
    open_ports,         \* serial ports this process holds open
    recent_taps,        \* self.recent_taps: sequence of [uid, age], oldest first
    hb_age,             \* now - self.last_heartbeat
    uid_hex,            \* _scan_loop's uid_hex, or <<>>
    wait_time,          \* _handle_retry's wait_time (ds), 0 outside a backoff
    until_end,          \* _interruptible_sleep's end_time - now
    exit_code,          \* the process's exit status, -1 while it runs
    out,                \* the event the last step wrote to stdout, or "none"
    \* history variables (observers, never read by the program)
    failures,           \* recoverable failures since the last successful initialization
    fatal_kind,         \* which fatal error event was written: none/config/max/unexpected
    sig_ignored,        \* the last step was a signal that the handler ignored
    ever_ready,         \* _initialize_hardware has succeeded at least once
    shutdown_events,    \* shutdown events written so far
    slept,              \* time slept so far in the current backoff
    since_tap,          \* per uid: time since its last tap event (capped at the window)
    recorded_since,     \* per uid: _record_tap calls after its last tap event (capped;
                        \* 0 again once the window of that tap event has elapsed)
    polled,             \* a poll has completed in the current _scan_loop call
    prior_failures,     \* failures that preceded the latest ready event (kept until the
                        \* first backoff after that event has ended)
    sig_in_loop,        \* a signal was delivered before run's main loop ended
    late,               \* blocking operations begun with shutdown_requested set, by kind
    clean,              \* no tag was detected and no exception raised so far
    was_full,           \* the buffer was full when _record_tap was called (set between
                        \* that call and the tap event that follows it)
    nonfatal_events,    \* non-fatal error events written since the last successful
                        \* initialization
    environ,            \* the settings _load_config found: NFC_PORT ("absent", "empty" or
                        \* "path") and whether every numeric setting parses
    \* the frame scripts (part 2)
    cpc,                \* position of the frame exchange: idle/start/sent/damaged/decoded
    command_code,       \* send_command's command code
    params,             \* send_command's parameter bytes
    line,               \* the bytes on the serial line
    encoder,            \* the script whose send_command built the frame
    damage,             \* the checksum byte damaged on the line: none/lcs/dcs
    decoder,            \* the script whose decoder read the line
    decoded,            \* what that decoder returned
    \* command execution (part 2)
    pending,            \* bytes the chip has sent that have not reached the buffer yet
    written,            \* the bytes send_command wrote to the port
    stale,              \* what the receive buffer held when the command was issued
    chip,               \* what the chip answered: whether an ACK, the noise, the payload
    ack_buf,            \* read_ack's buf
    \* card emulation (part 3)
    emulator,           \* the emulation script that runs: raw/hybrid/simple, or none
    spc,                \* its position: idle/listen/get/set
    ndef_msg,           \* ndef_msg (ndef_message in hybrid and simple)
    tap_count,          \* tap_count
    cmd_count,          \* cmd_count (apdu_count, command_count)
    cmd,                \* the inbound data of the command being answered, as returned
    resp,               \* resp (response_data): the reply handed to tg_set_data
    reads,              \* the READ BINARY commands of this session with their replies,
                        \* oldest first
    outcome,            \* the last blocking call (init/get/set) and how it ended:
                        \* data/nothing/raises/interrupt
    \* NDEF messages (part 4)
    npc,                \* position of the writer: idle/text/built/raised
    writer,             \* the script whose create_ndef_message ran: formatted/smart
    text,               \* text.encode('utf-8')
    message             \* what create_ndef_message returned

vars == <<env, pc, config, shutdown_requested, fatal_exit, retry_count, uart, pn532,
          open_ports, recent_taps, hb_age, uid_hex, wait_time, until_end, exit_code,
          out, failures, fatal_kind, sig_ignored, ever_ready, shutdown_events, slept,
          since_tap, recorded_since, polled, prior_failures, sig_in_loop, late, clean,
          was_full, nonfatal_events, environ,
          cpc, command_code, params, line, encoder, damage, decoder, decoded,
          pending, written, stale, chip, ack_buf,
          emulator, spc, ndef_msg, tap_count, cmd_count, cmd, resp, reads, outcome,
          npc, writer, text, message>>

\* Groups of variables, for the UNCHANGED clauses.
readerVars == <<env, pc, config, shutdown_requested, fatal_exit, retry_count, uart, pn532,
                open_ports, recent_taps, hb_age, uid_hex, wait_time, until_end,
                exit_code, out, failures, fatal_kind, sig_ignored, ever_ready,
                shutdown_events, slept, since_tap, recorded_since, polled,
                prior_failures, sig_in_loop, late, clean, was_full, nonfatal_events,
                environ>>
portVars == <<pending, written, stale, chip, ack_buf>>
codecVars == <<cpc, command_code, params, line, encoder, damage, decoder, decoded,
               portVars>>
sessionVars == <<emulator, spc, ndef_msg, tap_count, cmd_count, cmd, resp, reads, outcome>>
ndefVars == <<npc, writer, text, message>>
scriptVars == <<codecVars, sessionVars, ndefVars>>
cfgVars == <<env, config, environ>>
flagVars == <<shutdown_requested, shutdown_events, sig_in_loop>>
handleVars == <<uart, pn532, open_ports>>
retryVars == <<retry_count, failures, ever_ready, prior_failures, nonfatal_events>>
exitVars == <<fatal_exit, fatal_kind, exit_code>>
sleepVars == <<wait_time, until_end, slept>>
clockVars == <<hb_age, recent_taps, since_tap, recorded_since, was_full>>
scanVars == <<uid_hex, polled>>
\* (clean changes only where an exception is raised or a tag detected.)

\* Ages are kept up to the longest debounce window of the environment; beyond it they
\* all compare alike.
AgeCap == (CHOOSE m \in env.debounces : \A k \in env.debounces : k <= m) \div 100

\* The blocking operations counted in late: an _initialize_hardware call, a poll, a
\* sleep slice, and the first slice of a backoff wait.
LateKinds == {"init", "poll", "slice", "wait"}

\* Nothing written, nothing answered.
NoAnswer == [acked |-> FALSE, noise |-> <<>>, response |-> <<>>]

\* No command under way.
PortIdle ==
    /\ pending = <<>>
    /\ written = <<>>
    /\ stale = <<>>
    /\ chip = NoAnswer
    /\ ack_buf = <<>>

\* No blocking call made yet.
NoCall == [call |-> "none", result |-> "none"]

\* No emulation script runs.
SessionIdle ==
    /\ emulator = "none"
    /\ spc = "idle"
    /\ ndef_msg = <<>>
    /\ tap_count = 0
    /\ cmd_count = 0
    /\ cmd = <<>>
    /\ resp = <<>>
    /\ reads = <<>>
    /\ outcome = NoCall

\* No writer script runs.
NdefIdle ==
    /\ npc = "idle"
    /\ writer = "none"
    /\ text = <<>>
    /\ message = <<>>

\* The frame scripts have no part in a run of the reader.
CodecIdle ==
    /\ NdefIdle
    /\ SessionIdle
    /\ PortIdle
    /\ cpc = "idle"
    /\ command_code = 0
    /\ params = <<>>
    /\ line = <<>>
    /\ encoder = "none"
    /\ damage = "none"
    /\ decoder = "none"
    /\ decoded = None

\* The reader before __init__ runs, in environment e.
ReaderInit(e) ==
    /\ env = e
    /\ pc = "load_config"
    /\ config = [debounce_ms |-> 0, dedup_buffer_size |-> 0]
    /\ shutdown_requested = FALSE
    /\ fatal_exit = FALSE
    /\ retry_count = 0
    /\ uart = "None"
    /\ pn532 = "None"
    /\ open_ports = 0
    /\ recent_taps = <<>>
    /\ hb_age = 0
    /\ uid_hex = <<>>
    /\ wait_time = 0
    /\ until_end = 0
    /\ exit_code = -1
    /\ out = "none"
    /\ failures = 0
    /\ fatal_kind = "none"
    /\ sig_ignored = FALSE
    /\ ever_ready = FALSE
    /\ shutdown_events = 0
    /\ slept = 0
    /\ since_tap = [u \in UidHexes |-> AgeCap]
    /\ recorded_since = [u \in UidHexes |-> 0]
    /\ polled = FALSE
    /\ prior_failures = 0
    /\ sig_in_loop = FALSE
    /\ late = [k \in LateKinds |-> 0]
    /\ clean = TRUE
    /\ was_full = FALSE
    /\ nonfatal_events = 0
    /\ environ = [port |-> "unread", numeric_ok |-> TRUE]

\* The reader at its start.
Init(e) == ReaderInit(e) /\ CodecIdle

\* ------------------------------------------------------------ helpers of the actions
\* A step of the main program that moves to position p and writes event e ("none":
\* nothing) to stdout.
Move(p, e) ==
    /\ pc' = p
    /\ out' = e
    /\ sig_ignored' = FALSE
    /\ UNCHANGED scriptVars

\* Such a step that begins no blocking operation.
Step(p, e) ==
    /\ Move(p, e)
    /\ UNCHANGED <<late, clean>>

\* The blocking operations of kinds ks begin: count them if shutdown was requested.
Begin(ks) ==
    late' = [k \in LateKinds |->
                IF shutdown_requested /\ k \in ks THEN Min(late[k] + 1, 2) ELSE late[k]]

\* d tenths of a second pass on the monotonic clock.
Elapse(d) ==
    /\ hb_age' = hb_age + d
    /\ recent_taps' = [i \in DOMAIN recent_taps |->
                          [recent_taps[i] EXCEPT !.age = Min(@ + d, AgeCap)]]
    /\ since_tap' = [u \in UidHexes |-> Min(since_tap[u] + d, AgeCap)]
    /\ recorded_since' = [u \in UidHexes |->
                             IF since_tap[u] + d >= AgeCap THEN 0 ELSE recorded_since[u]]
    /\ UNCHANGED was_full

\* _cleanup_resources: close the port if a handle is held, then drop both handles
\* (the except branch only logs; the finally branch always runs).
CleanupResources ==
    /\ open_ports' = IF uart # "None" THEN open_ports - 1 ELSE open_ports
    /\ uart' = "None"
    /\ pn532' = "None"

\* _send_heartbeat_if_needed, in a step that moves to position p.
SendHeartbeatIfNeeded(p) ==
    IF HeartbeatDue(hb_age)
    THEN Step(p, "heartbeat") /\ hb_age' = 0
    ELSE Step(p, "none") /\ hb_age' = hb_age

\* The environment lets trouble come now.
Troubled == env.trouble = "always" \/ ~ever_ready

\* The environment lets a signal come now.
Signalled == env.signals = "always" \/ ~ever_ready

\* A recoverable exception (serial.SerialException, RuntimeError, OSError) is raised
\* inside run's try block and caught by its first except clause.
RaiseRecoverable ==
    /\ Troubled
    /\ Move("retry_emit", "none")
    /\ failures' = Min(failures + 1, MAX_RETRIES + 1)
    /\ clean' = FALSE
    /\ UNCHANGED <<retry_count, ever_ready, prior_failures, nonfatal_events>>

\* Any other exception is raised there and caught by the second except clause.
RaiseUnexpected ==
    /\ Troubled
    /\ Move("fatal_emit", "none")
    /\ clean' = FALSE
    /\ UNCHANGED retryVars

\* A check that rejects only an absent NFC_PORT (is None), not an empty one.
LoadConfig_AllowsEmpty ==
    /\ pc = "load_config"
    /\ \E port \in {"absent", "empty", "path"}, numeric_ok \in BOOLEAN,
          debounce \in env.debounces, size \in env.sizes :
          /\ environ' = [port |-> port, numeric_ok |-> numeric_ok]
          /\ IF port = "absent" \/ ~numeric_ok
             THEN \* except ValueError: emit the fatal error event, sys.exit(1)
                  /\ Step("exited", "error_fatal")
                  /\ fatal_kind' = "config"
                  /\ exit_code' = 1
                  /\ UNCHANGED config
             ELSE /\ config' = [debounce_ms |-> debounce, dedup_buffer_size |-> size]
                  /\ fatal_kind' = fatal_kind
                  /\ IF size < 0
                     THEN \* deque(maxlen=-1) raises ValueError outside _load_config's try
                          Step("exited", "none") /\ exit_code' = 1
                     ELSE Step("run_start", "none") /\ exit_code' = exit_code
    /\ UNCHANGED <<env, fatal_exit, flagVars, handleVars, retryVars, sleepVars, clockVars,
                   scanVars>>

\* ------------------------------------------------------------ construction
\* __init__ / _load_config.  The environment provides NFC_PORT (absent, empty or a
\* path), numeric settings that parse or not, and the two dedup settings.
LoadConfig ==
    /\ pc = "load_config"
    /\ \E port \in {"absent", "empty", "path"}, numeric_ok \in BOOLEAN,
          debounce \in env.debounces, size \in env.sizes :
          /\ environ' = [port |-> port, numeric_ok |-> numeric_ok]
          /\ IF port # "path" \/ ~numeric_ok
             THEN \* except ValueError: emit the fatal error event, sys.exit(1)
                  /\ Step("exited", "error_fatal")
                  /\ fatal_kind' = "config"
                  /\ exit_code' = 1
                  /\ UNCHANGED config
             ELSE /\ config' = [debounce_ms |-> debounce, dedup_buffer_size |-> size]
                  /\ fatal_kind' = fatal_kind
                  /\ IF size < 0
                     THEN \* deque(maxlen=-1) raises ValueError outside _load_config's try
                          Step("exited", "none") /\ exit_code' = 1
                     ELSE Step("run_start", "none") /\ exit_code' = exit_code
    /\ UNCHANGED <<env, fatal_exit, flagVars, handleVars, retryVars, sleepVars, clockVars,
                   scanVars>>

\* run: signal.signal(SIGINT / SIGTERM, self._handle_shutdown)
RegisterHandlers ==
    /\ pc = "run_start"
    /\ Step("loop_check", "none")
    /\ UNCHANGED <<cfgVars, flagVars, handleVars, retryVars, exitVars, sleepVars,
                   clockVars, scanVars>>

\* ------------------------------------------------------------ the signal handler
\* A handler without the guard against duplicate signals.
HandleShutdown_NoGuard ==
    /\ pc \notin {"load_config", "run_start", "exited"}
    /\ Signalled
    /\ shutdown_events < 3
    /\ shutdown_requested' = TRUE
    /\ out' = "shutdown"
    /\ sig_ignored' = FALSE
    /\ shutdown_events' = shutdown_events + 1
    /\ sig_in_loop' = (sig_in_loop \/ pc \notin {"final_cleanup", "exit"})
    /\ UNCHANGED <<late, clean>>
    /\ UNCHANGED <<pc, cfgVars, handleVars, retryVars, exitVars, sleepVars, clockVars,
                   scanVars, scriptVars>>

\* _handle_shutdown, run between two steps of the main program once it is installed.
HandleShutdown ==
    /\ pc \notin {"load_config", "run_start", "exited"}
    /\ Signalled
    /\ IF shutdown_requested
       THEN /\ out' = "none"
            /\ sig_ignored' = TRUE
            /\ UNCHANGED <<shutdown_requested, shutdown_events>>
       ELSE /\ shutdown_requested' = TRUE
            /\ out' = "shutdown"
            /\ sig_ignored' = FALSE
            /\ shutdown_events' = shutdown_events + 1
    /\ sig_in_loop' = (sig_in_loop \/ pc \notin {"final_cleanup", "exit"})
    /\ UNCHANGED <<late, clean>>
    /\ UNCHANGED <<pc, cfgVars, handleVars, retryVars, exitVars, sleepVars, clockVars,
                   scanVars, scriptVars>>

\* ------------------------------------------------------------ run: connection loop
\* while self.retry_count < MAX_RETRIES and not self.shutdown_requested
LoopCheck ==
    /\ pc = "loop_check"
    /\ Step(IF retry_count < MAX_RETRIES /\ ~shutdown_requested
            THEN "init_open" ELSE "final_cleanup", "none")
    /\ UNCHANGED <<cfgVars, flagVars, handleVars, retryVars, exitVars, sleepVars,
                   clockVars, scanVars>>

\* A connection attempt that starts with an empty dedup history.
InitOpen_ClearsHistory ==
    /\ pc = "init_open"
    /\ Begin({"init"})
    /\ recent_taps' = <<>>
    /\ \/ /\ uart' = "Serial"
          /\ open_ports' = open_ports + 1
          /\ Move("init_stabilize", "none")
          /\ UNCHANGED <<retryVars, clean>>
       \/ /\ RaiseRecoverable
          /\ UNCHANGED <<uart, open_ports>>
       \/ /\ RaiseUnexpected
          /\ UNCHANGED <<uart, open_ports>>
    /\ UNCHANGED <<cfgVars, flagVars, pn532, exitVars, sleepVars, hb_age, since_tap,
                   recorded_since, was_full, scanVars>>

\* _initialize_hardware: self.uart = serial.Serial(port, baud, timeout)
InitOpen ==
    /\ pc = "init_open"
    /\ Begin({"init"})
    /\ \/ /\ uart' = "Serial"
          /\ open_ports' = open_ports + 1
          /\ Move("init_stabilize", "none")
          /\ UNCHANGED <<retryVars, clean>>
       \/ \* serial.SerialException: the port could not be opened
          /\ RaiseRecoverable
          /\ UNCHANGED <<uart, open_ports>>
       \/ \* ValueError (a baud rate the driver rejects): not a recoverable class
          /\ RaiseUnexpected
          /\ UNCHANGED <<uart, open_ports>>
    /\ UNCHANGED <<cfgVars, flagVars, pn532, exitVars, sleepVars, clockVars, scanVars>>

\* _initialize_hardware: dtr / rts low, time.sleep(SIGNAL_STABILIZE_DELAY_S)
InitStabilize ==
    /\ pc = "init_stabilize"
    /\ Elapse(SIGNAL_STABILIZE_DELAY_DS)
    /\ Step("init_pn532", "none")
    /\ UNCHANGED <<cfgVars, flagVars, handleVars, retryVars, exitVars, sleepVars,
                   scanVars>>

\* _initialize_hardware: PN532_UART(...), SAM_configuration(), firmware_version
InitPN532 ==
    /\ pc = "init_pn532"
    /\ \/ /\ pn532' = "PN532"
          /\ Step("emit_ready", "none")
          /\ failures' = 0
          /\ ever_ready' = TRUE
          /\ prior_failures' = failures
          /\ nonfatal_events' = 0
          /\ UNCHANGED <<retry_count, clockVars>>
       \/ \* RuntimeError from the constructor (handle unset) or a later call (handle set)
          \E d \in FailDelays, h \in {"None", "PN532"} :
             /\ Elapse(d)
             /\ pn532' = h
             /\ RaiseRecoverable
             /\ UNCHANGED late
       \/ \* any other exception (the firmware tuple does not unpack, ...)
          /\ RaiseUnexpected
          /\ UNCHANGED <<pn532, clockVars, late>>
    /\ UNCHANGED <<cfgVars, flagVars, uart, open_ports, exitVars, sleepVars, scanVars>>

\* A run that goes on to scan without reporting that it is ready.
EmitReady_Silent ==
    /\ pc = "emit_ready"
    /\ Step("reset_retry", "none")
    /\ UNCHANGED <<cfgVars, flagVars, handleVars, retryVars, exitVars, sleepVars,
                   clockVars, scanVars>>

\* run: self._emit_event('ready', ...)
EmitReady ==
    /\ pc = "emit_ready"
    /\ Step("reset_retry", "ready")
    /\ UNCHANGED <<cfgVars, flagVars, handleVars, retryVars, exitVars, sleepVars,
                   clockVars, scanVars>>

\* A run that does not reset the counter.
ResetRetryCount_Keeps ==
    /\ pc = "reset_retry"
    /\ polled' = FALSE
    /\ Step("scan_check", "none")
    /\ UNCHANGED <<cfgVars, flagVars, handleVars, retryVars, exitVars, sleepVars,
                   clockVars, uid_hex>>

\* run: self.retry_count = 0, then self._scan_loop() is entered
ResetRetryCount ==
    /\ pc = "reset_retry"
    /\ retry_count' = 0
    /\ polled' = FALSE
    /\ Step("scan_check", "none")
    /\ UNCHANGED <<cfgVars, flagVars, handleVars, failures, ever_ready, prior_failures,
                   nonfatal_events,
                   exitVars, sleepVars, clockVars, uid_hex>>

\* ------------------------------------------------------------ _scan_loop
\* while not self.shutdown_requested
ScanCheck ==
    /\ pc = "scan_check"
    /\ Step(IF shutdown_requested THEN "loop_check" ELSE "scan_hb", "none")
    /\ UNCHANGED <<cfgVars, flagVars, handleVars, retryVars, exitVars, sleepVars,
                   clockVars, scanVars>>

\* self._send_heartbeat_if_needed()
ScanHeartbeat ==
    /\ pc = "scan_hb"
    /\ SendHeartbeatIfNeeded("scan_poll")
    /\ UNCHANGED <<cfgVars, flagVars, handleVars, retryVars, exitVars, sleepVars,
                   recent_taps, since_tap, recorded_since, was_full, scanVars>>

\* A scan loop that counts an empty poll as a failed attempt.
ScanPoll_NoneCountsRetry ==
    /\ pc = "scan_poll"
    /\ Begin({"poll"})
    /\ \/ \* no target within the timeout: None
          /\ Elapse(NFC_SCAN_TIMEOUT_DS)
          /\ Move("scan_check", "none")
          /\ polled' = TRUE
          /\ retry_count' = Min(retry_count + 1, MAX_RETRIES)
          /\ UNCHANGED <<uid_hex, failures, ever_ready, prior_failures, nonfatal_events,
                         clean>>
       \/ \* a tag answers: uid_hex = uid.hex().upper()
          \E uid \in env.uids, d \in TagDelays :
             /\ Elapse(d)
             /\ uid_hex' = HexUpper(uid)
             /\ Move("scan_dup", "none")
             /\ polled' = TRUE
             /\ clean' = FALSE
             /\ UNCHANGED retryVars
       \/ \* RuntimeError / OSError from the exchange with the chip
          \E d \in TagDelays :
             /\ Elapse(d)
             /\ RaiseRecoverable
             /\ UNCHANGED scanVars
       \/ \* any other exception
          /\ RaiseUnexpected
          /\ UNCHANGED <<scanVars, clockVars>>
    /\ UNCHANGED <<cfgVars, flagVars, handleVars, exitVars, sleepVars>>

\* uid = self.pn532.read_passive_target(timeout=NFC_SCAN_TIMEOUT_S)
ScanPoll ==
    /\ pc = "scan_poll"
    /\ Begin({"poll"})
    /\ \/ \* no target within the timeout: None
          /\ Elapse(NFC_SCAN_TIMEOUT_DS)
          /\ Move("scan_check", "none")
          /\ polled' = TRUE
          /\ UNCHANGED <<uid_hex, retryVars, clean>>
       \/ \* a tag answers: uid_hex = uid.hex().upper()
          \E uid \in env.uids, d \in TagDelays :
             /\ Elapse(d)
             /\ uid_hex' = HexUpper(uid)
             /\ Move("scan_dup", "none")
             /\ polled' = TRUE
             /\ clean' = FALSE
             /\ UNCHANGED retryVars
       \/ \* RuntimeError / OSError from the exchange with the chip
          \E d \in TagDelays :
             /\ Elapse(d)
             /\ RaiseRecoverable
             /\ UNCHANGED scanVars
       \/ \* any other exception
          /\ RaiseUnexpected
          /\ UNCHANGED <<scanVars, clockVars>>
    /\ UNCHANGED <<cfgVars, flagVars, handleVars, exitVars, sleepVars>>

\* if self._is_duplicate_tap(uid_hex)
ScanDup ==
    /\ pc = "scan_dup"
    /\ Step(IF IsDuplicateTap(recent_taps, uid_hex, DebounceDs(config))
            THEN "scan_debounced" ELSE "scan_record", "none")
    /\ UNCHANGED <<cfgVars, flagVars, handleVars, retryVars, exitVars, sleepVars,
                   clockVars, scanVars>>

\* A scan loop that records the debounced re-tap as well.
ScanDebounced_Records ==
    /\ pc = "scan_debounced"
    /\ recent_taps' = DequeAppend(recent_taps, config.dedup_buffer_size,
                                  [uid |-> uid_hex, age |-> 0])
    /\ uid_hex' = <<>>
    /\ Step("scan_check", "none")
    /\ UNCHANGED <<cfgVars, flagVars, handleVars, retryVars, exitVars, sleepVars,
                   hb_age, since_tap, recorded_since, was_full, polled>>

\* self._log_debug("Debounced re-tap"); continue
ScanDebounced ==
    /\ pc = "scan_debounced"
    /\ uid_hex' = <<>>
    /\ Step("scan_check", "none")
    /\ UNCHANGED <<cfgVars, flagVars, handleVars, retryVars, exitVars, sleepVars,
                   clockVars, polled>>

\* self._record_tap(uid_hex)
ScanRecord ==
    /\ pc = "scan_record"
    /\ recent_taps' = DequeAppend(recent_taps, config.dedup_buffer_size,
                                  [uid |-> uid_hex, age |-> 0])
    /\ recorded_since' = [u \in UidHexes |->
                             IF u = uid_hex \/ since_tap[u] >= AgeCap THEN 0
                             ELSE Min(recorded_since[u] + 1, MaxDedupSize + 1)]
    /\ was_full' = (Len(recent_taps) = config.dedup_buffer_size)
    /\ Step("scan_emit_tap", "none")
    /\ UNCHANGED <<cfgVars, flagVars, handleVars, retryVars, exitVars, sleepVars,
                   hb_age, since_tap, scanVars>>

\* self._emit_event('tap', uid=uid_hex)
ScanEmitTap ==
    /\ pc = "scan_emit_tap"
    /\ since_tap' = [since_tap EXCEPT ![uid_hex] = 0]
    /\ uid_hex' = <<>>
    /\ was_full' = FALSE
    /\ Step("scan_check", "tap")
    /\ UNCHANGED <<cfgVars, flagVars, handleVars, retryVars, exitVars, sleepVars,
                   hb_age, recent_taps, recorded_since, polled>>

\* A _handle_retry that reports nothing.
RetryEmit_Silent ==
    /\ pc = "retry_emit"
    /\ uid_hex' = <<>>
    /\ nonfatal_events' = nonfatal_events
    /\ Step("retry_cleanup", "none")
    /\ UNCHANGED <<cfgVars, flagVars, handleVars, retry_count, failures, ever_ready,
                   prior_failures, exitVars, sleepVars, clockVars, polled>>

\* ------------------------------------------------------------ _handle_retry
\* self._emit_event('error', ..., fatal=False)
RetryEmit ==
    /\ pc = "retry_emit"
    /\ uid_hex' = <<>>
    /\ nonfatal_events' = Min(nonfatal_events + 1, MAX_RETRIES + 1)
    /\ Step("retry_cleanup", "error_nonfatal")
    /\ UNCHANGED <<cfgVars, flagVars, handleVars, retry_count, failures, ever_ready,
                   prior_failures, exitVars, sleepVars, clockVars, polled>>

\* A _handle_retry that leaves the failed connection as it is.
RetryCleanup_Skips ==
    /\ pc = "retry_cleanup"
    /\ Step("retry_incr", "none")
    /\ UNCHANGED <<cfgVars, flagVars, handleVars, retryVars, exitVars, sleepVars,
                   clockVars, scanVars>>

\* self._cleanup_resources()
RetryCleanup ==
    /\ pc = "retry_cleanup"
    /\ CleanupResources
    /\ Step("retry_incr", "none")
    /\ UNCHANGED <<cfgVars, flagVars, retryVars, exitVars, sleepVars, clockVars,
                   scanVars>>

\* A _handle_retry without the ceiling test: every failure is backed off.
RetryIncrement_NoCeiling ==
    /\ pc = "retry_incr"
    /\ retry_count' = retry_count + 1
    /\ wait_time' = WaitTime(retry_count')
    /\ until_end' = wait_time'
    /\ slept' = 0
    /\ Step("sleep_check", "none")
    /\ UNCHANGED <<cfgVars, flagVars, handleVars, failures, ever_ready, prior_failures,
                   nonfatal_events,
                   exitVars, clockVars, scanVars>>

\* self.retry_count += 1; the ceiling test; wait_time = 2 ** self.retry_count and
\* _interruptible_sleep's end_time = time.monotonic() + total_seconds
RetryIncrement ==
    /\ pc = "retry_incr"
    /\ retry_count' = retry_count + 1
    /\ IF CeilingReached(retry_count')
       THEN /\ Step("retry_fatal", "none")
            /\ UNCHANGED sleepVars
       ELSE /\ wait_time' = WaitTime(retry_count')
            /\ until_end' = wait_time'
            /\ slept' = 0
            /\ Step("sleep_check", "none")
    /\ UNCHANGED <<cfgVars, flagVars, handleVars, failures, ever_ready, prior_failures,
                   nonfatal_events,
                   exitVars, clockVars, scanVars>>

\* self._emit_event('error', message="Max retries reached", fatal=True); return False
RetryFatal ==
    /\ pc = "retry_fatal"
    /\ fatal_kind' = "max"
    /\ Step("final_cleanup", "error_fatal")
    /\ UNCHANGED <<cfgVars, flagVars, handleVars, retryVars, fatal_exit, exit_code,
                   sleepVars, clockVars, scanVars>>

\* ------------------------------------------------------------ _interruptible_sleep
\* A sleep that does not look at the shutdown flag.
SleepCheck_IgnoresFlag ==
    /\ pc = "sleep_check"
    /\ Step(IF until_end > 0 THEN "sleep_slice" ELSE "sleep_ret", "none")
    /\ UNCHANGED <<cfgVars, flagVars, handleVars, retryVars, exitVars, sleepVars,
                   clockVars, scanVars>>

\* while time.monotonic() < end_time and not self.shutdown_requested
SleepCheck ==
    /\ pc = "sleep_check"
    /\ Step(IF until_end > 0 /\ ~shutdown_requested THEN "sleep_slice" ELSE "sleep_ret",
            "none")
    /\ UNCHANGED <<cfgVars, flagVars, handleVars, retryVars, exitVars, sleepVars,
                   clockVars, scanVars>>

\* time.sleep(min(BACKOFF_CHECK_INTERVAL_S, remaining))
SleepSlice ==
    /\ pc = "sleep_slice"
    /\ LET d == Min(BACKOFF_CHECK_INTERVAL_DS, until_end) IN
          /\ Elapse(d)
          /\ until_end' = until_end - d
          /\ slept' = slept + d
    /\ Begin(IF slept = 0 THEN {"slice", "wait"} ELSE {"slice"})
    /\ Move("sleep_hb", "none")
    /\ UNCHANGED clean
    /\ UNCHANGED <<cfgVars, flagVars, handleVars, retryVars, exitVars, wait_time,
                   scanVars>>

\* A sleep that makes no heartbeat check.
SleepHeartbeat_Skips ==
    /\ pc = "sleep_hb"
    /\ Step("sleep_check", "none")
    /\ UNCHANGED <<cfgVars, flagVars, handleVars, retryVars, exitVars, sleepVars,
                   clockVars, scanVars>>

\* self._send_heartbeat_if_needed()
SleepHeartbeat ==
    /\ pc = "sleep_hb"
    /\ SendHeartbeatIfNeeded("sleep_check")
    /\ UNCHANGED <<cfgVars, flagVars, handleVars, retryVars, exitVars, sleepVars,
                   recent_taps, since_tap, recorded_since, was_full, scanVars>>

\* return not self.shutdown_requested; _handle_retry returns it; run breaks on False
SleepReturn ==
    /\ pc = "sleep_ret"
    /\ Step(IF shutdown_requested THEN "final_cleanup" ELSE "loop_check", "none")
    /\ wait_time' = 0
    /\ until_end' = 0
    /\ slept' = 0
    /\ prior_failures' = 0
    /\ UNCHANGED <<cfgVars, flagVars, handleVars, retry_count, failures, ever_ready,
                   nonfatal_events, exitVars, clockVars, scanVars>>

\* An except clause without its break.
FatalEmit_NoBreak ==
    /\ pc = "fatal_emit"
    /\ fatal_kind' = "unexpected"
    /\ fatal_exit' = TRUE
    /\ uid_hex' = <<>>
    /\ Step("loop_check", "error_fatal")
    /\ UNCHANGED <<cfgVars, flagVars, handleVars, retryVars, exit_code, sleepVars,
                   clockVars, polled>>

\* ------------------------------------------------------------ run: the ways out
\* except Exception: emit the fatal error event, self.fatal_exit = True, break
FatalEmit ==
    /\ pc = "fatal_emit"
    /\ fatal_kind' = "unexpected"
    /\ fatal_exit' = TRUE
    /\ uid_hex' = <<>>
    /\ Step("final_cleanup", "error_fatal")
    /\ UNCHANGED <<cfgVars, flagVars, handleVars, retryVars, exit_code, sleepVars,
                   clockVars, polled>>

\* A run without the final cleanup.
FinalCleanup_Skips ==
    /\ pc = "final_cleanup"
    /\ Step("exit", "none")
    /\ UNCHANGED <<cfgVars, flagVars, handleVars, retryVars, exitVars, sleepVars,
                   clockVars, scanVars>>

\* Final cleanup: self._cleanup_resources()
FinalCleanup ==
    /\ pc = "final_cleanup"
    /\ CleanupResources
    /\ Step("exit", "none")
    /\ UNCHANGED <<cfgVars, flagVars, retryVars, exitVars, sleepVars, clockVars,
                   scanVars>>

\* sys.exit(exit_code)
Exit ==
    /\ pc = "exit"
    /\ exit_code' = ExitCode(fatal_exit, retry_count)
    /\ Step("exited", "none")
    /\ UNCHANGED <<cfgVars, flagVars, handleVars, retryVars, fatal_exit, fatal_kind,
                   sleepVars, clockVars, scanVars>>

\* ------------------------------------------------------------ specifications
\* The steps of the main program.
Main ==
    \/ LoadConfig \/ RegisterHandlers \/ LoopCheck
    \/ InitOpen \/ InitStabilize \/ InitPN532 \/ EmitReady \/ ResetRetryCount
    \/ ScanCheck \/ ScanHeartbeat \/ ScanPoll \/ ScanDup \/ ScanDebounced
    \/ ScanRecord \/ ScanEmitTap
    \/ RetryEmit \/ RetryCleanup \/ RetryIncrement \/ RetryFatal
    \/ SleepCheck \/ SleepSlice \/ SleepHeartbeat \/ SleepReturn
    \/ FatalEmit \/ FinalCleanup \/ Exit

Next == Main \/ HandleShutdown

\* The supervisor, with trouble at any time.
Spec == Init(EnvSupervisor) /\ [][Next]_vars

\* A shutdown, with the main program always taking its next step: every blocking call
\* returns or times out.  Nothing is assumed about the arrival of signals.
FairSpec == Init(EnvShutdown) /\ [][Next]_vars /\ WF_vars(Main)

\* The debouncer: several tags, every buffer size.
TapSpec == Init(EnvTaps) /\ [][Next]_vars

\* The debouncer across reconnections.
ReconnectSpec == Init(EnvReconnect) /\ [][Next]_vars

\* ------------------------------------------------------------ frame exchange
\* A script builds the frame of one command, the frame travels over the line (where a
\* checksum byte may get damaged) and a decoder reads it.

\* A command to send: any command code and parameter bytes.
FrameInit ==
    /\ ReaderInit(EnvSupervisor)
    /\ PortIdle
    /\ SessionIdle
    /\ NdefIdle
    /\ cpc = "start"
    /\ command_code \in Opcodes
    /\ params \in SeqsUpTo(ParamBytes, MaxParams)
    /\ line = <<>>
    /\ encoder = "none"
    /\ damage = "none"
    /\ decoder = "none"
    /\ decoded = None

\* send_command writes frame `frame` to the line.
Written(script, frame) ==
    /\ cpc = "start"
    /\ line' = frame
    /\ encoder' = script
    /\ cpc' = "sent"
    /\ UNCHANGED <<readerVars, sessionVars, ndefVars, portVars, command_code, params, damage,
                   decoder, decoded>>

BuildRaw == Written("raw", SendCommandRaw(command_code, params))

BuildHybrid == Written("hybrid", SendCommandHybrid(command_code, params))

BuildAck == Written("ack", SendCommandAck(<<command_code>> \o params))

\* The length checksum (5th byte) or the data checksum (last but one) arrives wrong.
DamageChecksum ==
    /\ cpc = "sent"
    /\ \E which \in {"lcs", "dcs"}, d \in Damages :
          LET at == IF which = "lcs" THEN 5 ELSE Len(line) - 1 IN
          /\ line' = [line EXCEPT ![at] = (@ + d) % 256]
          /\ damage' = which
    /\ cpc' = "damaged"
    /\ UNCHANGED <<readerVars, sessionVars, ndefVars, portVars, command_code, params, encoder,
                   decoder, decoded>>

\* A decoder reads the line and returns `result`.
Returned(script, result) ==
    /\ cpc \in {"sent", "damaged"}
    /\ decoded' = result
    /\ decoder' = script
    /\ cpc' = "decoded"
    /\ UNCHANGED <<readerVars, sessionVars, ndefVars, portVars, command_code, params, line,
                   encoder, damage>>

ReadRaw == Returned("raw", ReadResponseRaw(line))

ReadHybrid == Returned("hybrid", ReadResponseHybrid(line))

ReadAck == Returned("ack", ReadFrameAck(line))

ReadExact == Returned("exact", ReadFrameExact(line))

FrameNext ==
    \/ BuildRaw
    \/ BuildHybrid
    \/ BuildAck
    \/ DamageChecksum
    \/ ReadRaw
    \/ ReadHybrid
    \/ ReadAck
    \/ ReadExact

\* The frame scripts: one command, encoded, possibly damaged, decoded.
FrameSpec == FrameInit /\ [][FrameNext]_vars

\* ------------------------------------------------------------ command execution
\* One command: send_command builds and writes the frame, the chip answers, the bytes
\* arrive in the receive buffer (line) in chunks of any size, and the script reads
\* them.  Every byte the chip sends arrives before the timeout of the read that waits
\* for it, so a blocking ser.read(n) gets the next n bytes of line and pending.  The
\* bytes a decoder leaves unread are not followed: a run is one command.

\* A command is issued on a port whose receive buffer may hold bytes already.
CommandInit ==
    /\ ReaderInit(EnvSupervisor)
    /\ SessionIdle
    /\ NdefIdle
    /\ cpc = "issue"
    /\ command_code \in Opcodes
    /\ params \in CommandParams
    /\ line \in Stales
    /\ stale = line
    /\ pending = <<>>
    /\ written = <<>>
    /\ chip = NoAnswer
    /\ ack_buf = <<>>
    /\ encoder = "none"
    /\ damage = "none"
    /\ decoder = "none"
    /\ decoded = None

\* card-emulation-raw.py send_command, up to its call of read_response: the frame is
\* built (frame.append(length) raises ValueError for a length past one byte), the
\* input buffer is reset and the frame written.
SendRaw ==
    /\ cpc = "issue"
    /\ encoder' = "raw"
    /\ IF FitsByte(Len(params) + 2)
       THEN /\ line' = <<>>
            /\ written' = SendCommandRaw(command_code, params)
            /\ cpc' = "written"
       ELSE /\ cpc' = "raised"
            /\ UNCHANGED <<line, written>>
    /\ UNCHANGED <<readerVars, sessionVars, ndefVars, command_code, params, damage, decoder, decoded,
                   pending, stale, chip, ack_buf>>

\* card-emulation-hybrid.py send_command, up to its call of read_response: as above,
\* without the reset of the input buffer.
SendHybrid ==
    /\ cpc = "issue"
    /\ encoder' = "hybrid"
    /\ IF FitsByte(Len(params) + 2)
       THEN /\ written' = SendCommandHybrid(command_code, params)
            /\ cpc' = "written"
       ELSE /\ cpc' = "raised"
            /\ UNCHANGED written
    /\ UNCHANGED <<readerVars, sessionVars, ndefVars, command_code, params, line, damage, decoder, decoded,
                   pending, stale, chip, ack_buf>>

\* test-nfc-with-ack.py send_command: the frame is built, the input buffer reset, the
\* frame written and returned.
SendAck ==
    /\ cpc = "issue"
    /\ encoder' = "ack"
    /\ IF FitsByte(Len(<<command_code>> \o params) + 1)
       THEN /\ line' = <<>>
            /\ written' = SendCommandAck(<<command_code>> \o params)
            /\ cpc' = "written"
       ELSE /\ cpc' = "raised"
            /\ UNCHANGED <<line, written>>
    /\ UNCHANGED <<readerVars, sessionVars, ndefVars, command_code, params, damage, decoder, decoded,
                   pending, stale, chip, ack_buf>>

\* The chip answers the frame: the ACK or none, then possibly noise, then a response
\* frame.
ChipAnswers ==
    /\ cpc = "written"
    /\ \E acked \in BOOLEAN, noise \in Noises, response \in Responses :
          /\ chip' = [acked |-> acked, noise |-> noise, response |-> response]
          /\ pending' = (IF acked THEN AckTarget ELSE <<>>) \o noise
                        \o ResponseFrame(response)
    /\ cpc' = "answered"
    /\ UNCHANGED <<readerVars, sessionVars, ndefVars, command_code, params, line, encoder, damage, decoder,
                   decoded, written, stale, ack_buf>>

\* The next k bytes reach the receive buffer.
Arrive ==
    /\ cpc = "answered"
    /\ pending # <<>>
    /\ \E k \in 1..Len(pending) :
          /\ line' = line \o SubSeq(pending, 1, k)
          /\ pending' = SubSeq(pending, k + 1, Len(pending))
    /\ UNCHANGED <<readerVars, sessionVars, ndefVars, cpc, command_code, params, encoder, damage, decoder,
                   decoded, written, stale, chip, ack_buf>>

\* read_response or read_frame returns `result`.
Responded(script, result) ==
    /\ decoded' = result
    /\ decoder' = script
    /\ cpc' = "returned"
    /\ UNCHANGED <<readerVars, sessionVars, ndefVars, portVars, command_code, params, line,
                   encoder, damage>>

\* card-emulation-raw.py send_command: return read_response(ser)
ReturnRaw ==
    /\ cpc = "answered"
    /\ encoder = "raw"
    /\ Responded("raw", ReadResponseRaw(line \o pending))

\* card-emulation-hybrid.py send_command: return read_response(ser)
ReturnHybrid ==
    /\ cpc = "answered"
    /\ encoder = "hybrid"
    /\ Responded("hybrid", ReadResponseHybrid(line \o pending))

\* test-nfc-with-ack.py read_ack, one turn of its loop: chunk is everything in the
\* buffer, or the next byte to arrive when the buffer is empty; with nothing left to
\* arrive the deadline passes and read_ack returns False.
AckRead ==
    /\ cpc = "answered"
    /\ encoder = "ack"
    /\ LET chunk == IF line # <<>> THEN line ELSE SerRead(pending, 1, 1) IN
       IF chunk = <<>>
       THEN /\ cpc' = "noack"
            /\ UNCHANGED <<line, pending, ack_buf>>
       ELSE /\ ack_buf' = ack_buf \o chunk
            /\ IF line # <<>>
               THEN line' = <<>> /\ UNCHANGED pending
               ELSE pending' = Tail(pending) /\ UNCHANGED line
            /\ cpc' = IF Contains(ack_buf', AckTarget) THEN "acked" ELSE "answered"
    /\ UNCHANGED <<readerVars, sessionVars, ndefVars, command_code, params, encoder, damage, decoder,
                   decoded, written, stale, chip>>

\* test-nfc-with-ack.py: response = read_frame(ser), after read_ack returned True.
ReturnAck ==
    /\ cpc = "acked"
    /\ Responded("ack", ReadFrameAck(line \o pending))

CommandNext ==
    \/ SendRaw
    \/ SendHybrid
    \/ SendAck
    \/ ChipAnswers
    \/ Arrive
    \/ ReturnRaw
    \/ ReturnHybrid
    \/ AckRead
    \/ ReturnAck

\* The command senders: one command, written, answered, read.
CommandSpec == CommandInit /\ [][CommandNext]_vars

\* ------------------------------------------------------------ card emulation
\* The listening loop and the session loop of the emulation scripts.  tg_init_as_target,
\* tg_get_data and tg_set_data block; each returns data, returns nothing (None or empty
\* bytes) or raises, and Ctrl+C may arrive while it waits.

\* One of the scripts has set up the port and built ndef_msg; it starts to listen.
SessionInit ==
    /\ ReaderInit(EnvSupervisor)
    /\ PortIdle
    /\ NdefIdle
    /\ cpc = "idle"
    /\ command_code = 0
    /\ params = <<>>
    /\ line = <<>>
    /\ encoder = "none"
    /\ damage = "none"
    /\ decoder = "none"
    /\ decoded = None
    /\ emulator \in Emulators
    /\ spc = "listen"
    /\ ndef_msg = CreateNdefText(PaymentText)
    /\ tap_count = 0
    /\ cmd_count = 0
    /\ cmd = <<>>
    /\ resp = <<>>
    /\ reads = <<>>
    /\ outcome = NoCall

\* Inbound data that is the READ BINARY APDU, bare or after a status byte.
IsReadBinary(data) == data \in {ReadBinaryApdu, <<0>> \o ReadBinaryApdu}

\* tg_init_as_target returns a response: a tap, and a session begins.
InitTap ==
    /\ spc = "listen"
    /\ tap_count < MaxTaps
    /\ tap_count' = tap_count + 1
    /\ cmd_count' = 0
    /\ cmd' = <<>>
    /\ resp' = <<>>
    /\ reads' = <<>>
    /\ outcome' = [call |-> "init", result |-> "data"]
    /\ spc' = "get"
    /\ UNCHANGED <<readerVars, codecVars, ndefVars, emulator, ndef_msg>>

\* tg_init_as_target returns nothing, or raises (the exception is caught in the
\* listening loop): after time.sleep(0.1) the loop listens again.
InitNothing ==
    /\ spc = "listen"
    /\ \E o \in {"nothing", "raises"} : outcome' = [call |-> "init", result |-> o]
    /\ spc' = "listen"
    /\ UNCHANGED <<readerVars, codecVars, ndefVars, emulator, ndef_msg, tap_count, cmd_count, cmd,
                   resp, reads>>

\* tg_get_data returns a command: it is counted and parsed, and the reply, if there is
\* one, is about to be handed to tg_set_data.
GetCommand ==
    /\ spc = "get"
    /\ cmd_count < MaxCommands
    /\ \E data \in Inbound :
          LET reply == Reply(emulator, data, ndef_msg) IN
          /\ cmd' = data
          /\ resp' = reply
          /\ reads' = IF IsReadBinary(data)
                      THEN Append(reads, [data |-> data, reply |-> reply])
                      ELSE reads
          /\ spc' = IF reply = <<>> THEN "get" ELSE "set"
    /\ cmd_count' = cmd_count + 1
    /\ outcome' = [call |-> "get", result |-> "data"]
    /\ UNCHANGED <<readerVars, codecVars, ndefVars, emulator, ndef_msg, tap_count>>

\* tg_get_data returns nothing, or raises: the session is over and the script listens
\* again.
GetNothing ==
    /\ spc = "get"
    /\ \E o \in {"nothing", "raises"} : outcome' = [call |-> "get", result |-> o]
    /\ spc' = "listen"
    /\ UNCHANGED <<readerVars, codecVars, ndefVars, emulator, ndef_msg, tap_count, cmd_count, cmd,
                   resp, reads>>

\* A session loop that hands the reply to tg_set_data once more.
SetDone_SendsAgain ==
    /\ spc = "set"
    /\ outcome' = [call |-> "set", result |-> "data"]
    /\ spc' = IF outcome.call = "set" THEN "get" ELSE "set"
    /\ UNCHANGED <<readerVars, codecVars, ndefVars, emulator, ndef_msg, tap_count, cmd_count,
                   cmd, resp, reads>>

\* tg_set_data returns a result: the session goes on.
SetDone ==
    /\ spc = "set"
    /\ outcome' = [call |-> "set", result |-> "data"]
    /\ spc' = "get"
    /\ UNCHANGED <<readerVars, codecVars, ndefVars, emulator, ndef_msg, tap_count, cmd_count, cmd,
                   resp, reads>>

\* A session that goes on after a reply that could not be sent.
SetNothing_KeepsSession ==
    /\ spc = "set"
    /\ \E o \in {"nothing", "raises"} : outcome' = [call |-> "set", result |-> o]
    /\ spc' = "get"
    /\ UNCHANGED <<readerVars, codecVars, ndefVars, emulator, ndef_msg, tap_count, cmd_count, cmd,
                   resp, reads>>

\* tg_set_data returns nothing, or raises: the session is over (raw, hybrid:
\* session_active = False, or the exception leaves the loop).  card-emulation-simple
\* does not look at what TgSetData returns; only its RuntimeError ends the session.
SetNothing ==
    /\ spc = "set"
    /\ \E o \in {"nothing", "raises"} :
          /\ outcome' = [call |-> "set", result |-> o]
          /\ spc' = IF emulator = "simple" /\ o = "nothing" THEN "get" ELSE "listen"
    /\ UNCHANGED <<readerVars, codecVars, ndefVars, emulator, ndef_msg, tap_count, cmd_count, cmd,
                   resp, reads>>

\* Ctrl+C: KeyboardInterrupt is raised again by the listening loop and ends the script.
Interrupt ==
    /\ spc \in {"listen", "get", "set"}
    /\ outcome' = [call |-> IF spc = "listen" THEN "init" ELSE spc, result |-> "interrupt"]
    /\ spc' = "stopped"
    /\ UNCHANGED <<readerVars, codecVars, ndefVars, emulator, ndef_msg, tap_count, cmd_count, cmd,
                   resp, reads>>

SessionNext ==
    \/ InitTap
    \/ InitNothing
    \/ GetCommand
    \/ GetNothing
    \/ SetDone
    \/ SetNothing
    \/ Interrupt

\* The emulation scripts: taps, sessions, commands.
SessionSpec == SessionInit /\ [][SessionNext]_vars

\* ------------------------------------------------------------ NDEF messages
\* A writer script builds the message for a text.  bytearray.append raises ValueError
\* for a length that does not fit a byte.

\* A text to wrap, with the frame and emulation scripts idle.
NdefInit ==
    /\ ReaderInit(EnvSupervisor)
    /\ PortIdle
    /\ SessionIdle
    /\ cpc = "idle"
    /\ command_code = 0
    /\ params = <<>>
    /\ line = <<>>
    /\ encoder = "none"
    /\ damage = "none"
    /\ decoder = "none"
    /\ decoded = None
    /\ npc = "text"
    /\ writer = "none"
    /\ text \in Texts
    /\ message = <<>>

\* write-ndef-formatted.py create_ndef_message(text): record.append(payload_length)
\* raises for a payload over 255 bytes.
BuildFormatted ==
    /\ npc = "text"
    /\ writer' = "formatted"
    /\ IF FitsByte(Len(Language \o text))
       THEN /\ message' = CreateNdefMessageFormatted(text)
            /\ npc' = "built"
       ELSE /\ npc' = "raised"
            /\ UNCHANGED message
    /\ UNCHANGED <<readerVars, codecVars, sessionVars, text>>

\* write-ndef-smart.py create_ndef_message(text): record.append(len(payload)) and
\* tlv.append(len(ndef_record)) raise for a length over 255.
BuildSmart ==
    /\ npc = "text"
    /\ writer' = "smart"
    /\ IF /\ FitsByte(Len(Language \o text))
          /\ FitsByte(Len(CreateNdefTextRecordSmart(text)))
       THEN /\ message' = CreateNdefMessageSmart(text)
            /\ npc' = "built"
       ELSE /\ npc' = "raised"
            /\ UNCHANGED message
    /\ UNCHANGED <<readerVars, codecVars, sessionVars, text>>

NdefNext ==
    \/ BuildFormatted
    \/ BuildSmart

\* The writer scripts: one text, wrapped.
NdefSpec == NdefInit /\ [][NdefNext]_vars

\* ============================================================ properties
ScanPcs == {"scan_check", "scan_hb", "scan_poll", "scan_dup", "scan_debounced",
            "scan_record", "scan_emit_tap"}
SleepPcs == {"sleep_check", "sleep_slice", "sleep_hb", "sleep_ret"}
\* Positions from the raising of an exception to the end of the process.
HandlingPcs == {"retry_emit", "retry_cleanup", "retry_incr", "retry_fatal"}
EndPcs == {"final_cleanup", "exit", "exited"}

\* C1: the MAX_RETRIES-th consecutive recoverable failure stops the loop (no further
\* connection attempt, no backoff), writes the fatal 'Max retries reached' event and
\* ends the process with status 1; that event is written after no fewer failures.
C1_RetryCeiling ==
    /\ failures <= MAX_RETRIES
    /\ (failures = MAX_RETRIES => pc \in HandlingPcs \cup EndPcs)
    /\ (failures = MAX_RETRIES /\ pc \in EndPcs => fatal_kind = "max")
    /\ (failures = MAX_RETRIES /\ pc = "exited" => exit_code = 1)
    /\ (fatal_kind = "max" => failures = MAX_RETRIES)

C1_Witness ==
    pc = "exited" /\ failures = MAX_RETRIES /\ fatal_kind = "max" /\ exit_code = 1

\* C2: the backoff after the n-th consecutive failure (1 <= n < MAX_RETRIES) asks for
\* 2^n seconds (2, 4, 8, 16), a backoff that no shutdown interrupts sleeps exactly that
\* long, and no wait belongs to the failure that reaches the ceiling.
C2_BackoffDoubles ==
    /\ pc \in SleepPcs =>
          /\ failures \in 1 .. MAX_RETRIES - 1
          /\ retry_count = failures
          /\ wait_time = 10 * (2 ^ failures)
          /\ wait_time = <<20, 40, 80, 160>>[failures]
          /\ slept + until_end = wait_time
          /\ until_end >= 0
    /\ (pc = "sleep_ret" /\ ~shutdown_requested => slept = wait_time)
    /\ (pc \notin SleepPcs => wait_time = 0 /\ slept = 0)

C2_Witness ==
    /\ pc = "sleep_ret"
    /\ ~shutdown_requested
    /\ failures = MAX_RETRIES - 1
    /\ slept = 160

\* C3: retry_count is 0 whenever the scan loop runs, and the first failure after a
\* ready event is followed by a backoff of 2 seconds, whatever preceded that event.
C3_ResetOnReady ==
    /\ (pc \in ScanPcs => retry_count = 0)
    /\ (pc \in SleepPcs /\ ever_ready /\ failures = 1 =>
           retry_count = 1 /\ wait_time = 20)
    /\ (pc = "sleep_ret" /\ ever_ready /\ failures = 1 /\ ~shutdown_requested =>
           slept = 20)

C3_Witness ==
    /\ pc = "sleep_ret"
    /\ ~shutdown_requested
    /\ failures = 1
    /\ prior_failures = MAX_RETRIES - 1
    /\ slept = 20

\* C4 as claimed: a detection of a uid goes on to a tap event only if the window of
\* that uid's last tap event has elapsed, for every buffer size; and it is suppressed
\* only within the window.
C4_Original ==
    /\ (pc = "scan_record" => since_tap[uid_hex] >= DebounceDs(config))
    /\ (pc = "scan_debounced" => since_tap[uid_hex] < DebounceDs(config))

\* C4 as amended: a detection of a uid is suppressed exactly when that uid's last tap
\* event is younger than the window and fewer than dedup_buffer_size taps have been
\* recorded since (its record is still in the buffer).
C4_Debounce ==
    /\ (pc = "scan_record" =>
           \/ since_tap[uid_hex] >= DebounceDs(config)
           \/ recorded_since[uid_hex] >= config.dedup_buffer_size)
    /\ (pc = "scan_debounced" =>
           /\ since_tap[uid_hex] < DebounceDs(config)
           /\ recorded_since[uid_hex] < config.dedup_buffer_size)

\* A detection is suppressed although another uid was recorded in between.
C4_Witness ==
    pc = "scan_debounced" /\ recorded_since[uid_hex] >= 1

\* C5: the buffer never holds more than dedup_buffer_size records, and _record_tap on
\* a full buffer drops the oldest record and keeps the others in their order.
C5_BoundedFifo ==
    /\ [](Len(recent_taps) <= config.dedup_buffer_size)
    /\ [][pc = "scan_record" /\ pc' = "scan_emit_tap" =>
            LET n == config.dedup_buffer_size
                new == [uid |-> uid_hex, age |-> 0]
            IN  IF n = 0 THEN recent_taps' = <<>>
                ELSE IF Len(recent_taps) = n
                THEN /\ Len(recent_taps') = n
                     /\ \A i \in 1 .. n - 1 : recent_taps'[i] = recent_taps[i + 1]
                     /\ recent_taps'[n] = new
                ELSE recent_taps' = Append(recent_taps, new)]_vars

\* A record has just been appended to a full buffer of two records.
C5_Witness ==
    /\ pc = "scan_emit_tap"
    /\ was_full
    /\ config.dedup_buffer_size = 2
    /\ recent_taps[1].uid # recent_taps[2].uid

\* C6 as claimed: a run in which a signal was delivered before the main loop ended
\* exits with status 0, and status 1 has one of the three causes.
C6_Original ==
    pc = "exited" =>
       /\ (sig_in_loop => exit_code = 0)
       /\ (exit_code = 1 =>
              \/ fatal_kind \in {"config", "max", "unexpected"}
              \/ config.dedup_buffer_size < 0)

\* C6 as amended: the status is 1 exactly when the configuration was rejected, the
\* retry ceiling was reached or an unexpected exception was raised, also when a signal
\* was delivered; every other run, and so every other signalled run, exits with 0.
C6_ExitStatus ==
    pc = "exited" =>
       /\ exit_code \in {0, 1}
       /\ (exit_code = 1 <=>
              \/ fatal_kind \in {"config", "unexpected"}
              \/ failures = MAX_RETRIES
              \/ config.dedup_buffer_size < 0)
       /\ (sig_in_loop /\ failures < MAX_RETRIES /\ fatal_kind = "none" => exit_code = 0)

\* A signal arrived while a failure was handled or backed off, and the status is 0.
C6_Witness ==
    /\ pc = "exited"
    /\ sig_in_loop
    /\ failures \in 1 .. MAX_RETRIES - 1
    /\ exit_code = 0

\* C7 as claimed: after the flag is set no _initialize_hardware call and no backoff
\* wait begins, at most one poll and one sleep slice do, and the process terminates.
C7_Original ==
    /\ [](/\ late["init"] = 0
          /\ late["wait"] = 0
          /\ late["poll"] <= 1
          /\ late["slice"] <= 1)
    /\ (shutdown_requested ~> pc = "exited")

\* C7 as amended: after the flag is set at most one blocking operation begins (the
\* _initialize_hardware call, poll or sleep slice whose loop condition had passed
\* before the signal arrived), no loop condition that sees the flag lets its loop go
\* on, and the process terminates.
C7_Shutdown ==
    /\ [](late["init"] + late["poll"] + late["slice"] <= 1)
    /\ [][shutdown_requested /\ pc \in {"loop_check", "scan_check", "sleep_check"} =>
            pc' \notin {"init_open", "scan_hb", "sleep_slice"}]_vars
    /\ (shutdown_requested ~> pc = "exited")

\* The process has ended after an _initialize_hardware call that began after the flag
\* was set.
C7_Witness ==
    pc = "exited" /\ late["init"] = 1

C9_CleanupOnExit ==
    pc \in {"exit", "exited"} => open_ports = 0 /\ uart = "None" /\ pn532 = "None"

\* The process has ended by a shutdown during scanning, with the port open until the
\* final cleanup.
C9_Witness ==
    /\ pc = "exited"
    /\ shutdown_requested
    /\ polled
    /\ failures = 0
    /\ fatal_kind = "none"

\* C10 as claimed: with no taps and no errors, a heartbeat check in the scan loop never
\* finds more than HEARTBEAT_INTERVAL_S elapsed since the last heartbeat (or start-up).
C10_Original ==
    pc = "scan_hb" /\ clean => hb_age <= HEARTBEAT_INTERVAL_DS

\* C10 as amended: a heartbeat check of a running scan loop finds less than
\* HEARTBEAT_INTERVAL_S plus one polling cycle (NFC_SCAN_TIMEOUT_S) elapsed.
C10_HeartbeatGap ==
    pc = "scan_hb" /\ (clean \/ polled) =>
       hb_age < HEARTBEAT_INTERVAL_DS + NFC_SCAN_TIMEOUT_DS

\* A heartbeat is due later than HEARTBEAT_INTERVAL_S after start-up, in a run with no
\* taps and no errors.
C10_Witness ==
    pc = "scan_hb" /\ clean /\ hb_age > HEARTBEAT_INTERVAL_DS

\* C11 as claimed: before termination, whatever the supervisor is doing, the time since
\* the last heartbeat stays below HEARTBEAT_INTERVAL_S plus one polling cycle (a poll
\* or a backoff slice).
C11_Original ==
    pc \notin EndPcs \cup {"fatal_emit", "retry_fatal"} =>
       hb_age < HEARTBEAT_INTERVAL_DS + NFC_SCAN_TIMEOUT_DS

\* C11 as amended: every heartbeat check (top of a scan iteration, end of a backoff
\* slice) writes a heartbeat exactly when HEARTBEAT_INTERVAL_S has elapsed; a check that
\* follows another check of the same loop (a scan iteration after a poll, a backoff
\* slice after a slice) finds less than HEARTBEAT_INTERVAL_S plus one polling cycle
\* elapsed.  Nothing is said of initialization and failure handling, where no check
\* is made.
C11_HeartbeatChecks ==
    /\ [](pc = "scan_hb" /\ polled =>
             hb_age < HEARTBEAT_INTERVAL_DS + NFC_SCAN_TIMEOUT_DS)
    /\ [](pc = "sleep_hb" /\ slept > BACKOFF_CHECK_INTERVAL_DS =>
             hb_age < HEARTBEAT_INTERVAL_DS + BACKOFF_CHECK_INTERVAL_DS)
    /\ [][pc' # pc /\ pc \in {"scan_hb", "sleep_hb"} =>
            (IF hb_age >= HEARTBEAT_INTERVAL_DS
             THEN out' = "heartbeat" /\ hb_age' = 0
             ELSE out' # "heartbeat" /\ hb_age' = hb_age)]_vars

\* A heartbeat is due at the end of a later slice of a backoff sleep.
C11_Witness ==
    /\ pc = "sleep_hb"
    /\ slept > BACKOFF_CHECK_INTERVAL_DS
    /\ hb_age >= HEARTBEAT_INTERVAL_DS

\* C12: events are written in the order in which their conditions were detected: when
\* the shutdown event is written, no detected tag still awaits its tap event and no
\* raised failure still awaits its error event.
C12_Original ==
    out = "shutdown" => pc \notin {"scan_record", "scan_emit_tap", "retry_emit", "fatal_emit"}

\* C13: an exception outside the recoverable classes is fatal: its handling writes one
\* fatal error event and goes straight to the final cleanup and exit with status 1;
\* from the raise on retry_count does not change, no non-fatal or second fatal error
\* event and no ready event is written, no backoff is set up, and the port is closed
\* by the one cleanup that follows.
C13_UnexpectedIsFatal ==
    /\ [](fatal_kind = "unexpected" =>
             pc \in EndPcs /\ fatal_exit /\ wait_time = 0 /\ nonfatal_events = failures)
    /\ [](fatal_kind = "unexpected" /\ pc = "exited" => exit_code = 1 /\ open_ports = 0)
    /\ [][pc = "fatal_emit" /\ pc' # pc =>
            /\ pc' = "final_cleanup"
            /\ out' = "error_fatal"
            /\ fatal_kind' = "unexpected"
            /\ UNCHANGED <<retry_count, uart, open_ports>>]_vars
    /\ [][fatal_kind = "unexpected" =>
            /\ out' \in {"none", "shutdown"}
            /\ retry_count' = retry_count
            /\ (pc = "final_cleanup" /\ pc' # pc => pc' = "exit" /\ open_ports' = 0)]_vars

\* The exception came after failed attempts, with the port open.
C13_Witness ==
    /\ pc = "final_cleanup"
    /\ fatal_kind = "unexpected"
    /\ retry_count \in 1 .. MAX_RETRIES - 1
    /\ open_ports = 1

\* C14: every recoverable failure is reported by exactly one non-fatal error event,
\* written with the transport as the failure left it and before any backoff is set up,
\* and adds exactly 1 to retry_count; the fatal 'Max retries reached' event is written
\* after MAX_RETRIES non-fatal events since the last ready event (or since start).
C14_OneErrorPerFailure ==
    /\ [](nonfatal_events = failures - (IF pc = "retry_emit" THEN 1 ELSE 0))
    /\ [](pc \in HandlingPcs \cup SleepPcs \cup {"loop_check", "init_open", "init_stabilize",
                                                  "init_pn532"} =>
             retry_count = failures -
                (IF pc \in {"retry_emit", "retry_cleanup", "retry_incr"} THEN 1 ELSE 0))
    /\ [](fatal_kind = "max" => nonfatal_events = MAX_RETRIES)
    /\ [][out' = "error_nonfatal" =>
            /\ pc = "retry_emit" /\ pc' = "retry_cleanup"
            /\ wait_time' = 0
            /\ UNCHANGED <<uart, open_ports, retry_count>>]_vars
    /\ [][pc = "retry_emit" /\ pc' # pc => out' = "error_nonfatal"]_vars
    /\ [][pc = "retry_incr" /\ pc' # pc => retry_count' = retry_count + 1]_vars

\* The ceiling is reached by failures that follow a ready event.
C14_Witness ==
    /\ fatal_kind = "max"
    /\ ever_ready
    /\ nonfatal_events = MAX_RETRIES

\* C15: once a fatal error event has been written, no event of any kind is written.
C15_Original ==
    [][fatal_kind # "none" => out' = "none"]_vars

\* C16: when NFC_PORT is absent or empty, or a numeric setting does not parse, the
\* construction writes one fatal error event and the process has exited with status 1:
\* no port was opened, no handler installed (no signal handled), nothing else written.
C16_ConfigError ==
    /\ (environ.port \in {"absent", "empty"} \/ ~environ.numeric_ok =>
           /\ pc = "exited"
           /\ out = "error_fatal"
           /\ fatal_kind = "config"
           /\ exit_code = 1
           /\ open_ports = 0 /\ uart = "None"
           /\ shutdown_events = 0 /\ ~shutdown_requested /\ ~sig_in_loop
           /\ ~ever_ready /\ nonfatal_events = 0 /\ hb_age = 0)
    /\ (fatal_kind = "config" => environ.port \in {"absent", "empty"} \/ ~environ.numeric_ok)

\* NFC_PORT is set but empty.
C16_Witness ==
    pc = "exited" /\ environ.port = "empty" /\ environ.numeric_ok /\ exit_code = 1

\* C17: a poll that finds no target writes nothing, leaves retry_count, the failure
\* count, the handles and the records of the dedup buffer as they are, sets up no
\* backoff and goes on to the next iteration of the scan loop.
C17_EmptyPoll ==
    [][pc = "scan_poll" /\ pc' \notin {"scan_poll", "scan_dup", "retry_emit", "fatal_emit"} =>
         /\ pc' = "scan_check"
         /\ out' = "none"
         /\ Len(recent_taps') = Len(recent_taps)
         /\ \A i \in DOMAIN recent_taps : recent_taps'[i].uid = recent_taps[i].uid
         /\ UNCHANGED <<retry_count, failures, nonfatal_events, uart, pn532, open_ports,
                        wait_time, until_end, fatal_exit, exit_code, uid_hex>>]_vars

\* Only empty polls so far, the latest one right after the first heartbeat.
C17_Witness ==
    pc = "scan_check" /\ polled /\ clean /\ hb_age = NFC_SCAN_TIMEOUT_DS

\* C18: frame round trip: an undamaged frame built by send_command and read by
\* read_response (raw, hybrid) or read_frame (with-ack) comes back as the command code
\* followed by the parameters, nothing else.
C18_RoundTrip ==
    cpc = "decoded" /\ damage = "none" /\ decoder \in {"raw", "hybrid", "ack"} =>
       /\ decoded.ok
       /\ decoded.payload = <<command_code>> \o params

\* A frame with the most parameters, one of them FF, read by read_frame.
C18_Witness ==
    /\ cpc = "decoded"
    /\ damage = "none"
    /\ decoder = "ack"
    /\ Len(params) = 2
    /\ params[1] = 255
    /\ decoded.ok

\* C19: a frame whose length checksum or data checksum is wrong is rejected by every
\* decoder: none returns a payload.
C19_Original ==
    cpc = "decoded" /\ damage # "none" => ~decoded.ok

\* C20: every frame built by the encoders of card-emulation-raw and test-nfc-with-ack
\* has length = number of parameter bytes + 2, length + LCS = 0 mod 256 and
\* D4 + command code + parameters + DCS = 0 mod 256, and the two encoders build the same
\* frame for the same command.
C20_Checksums ==
    cpc = "sent" /\ encoder \in {"raw", "ack"} =>
       /\ Len(line) = Len(params) + 9
       /\ line[4] = Len(params) + 2
       /\ (line[4] + line[5]) % 256 = 0
       /\ (212 + command_code + Sum(params) + line[Len(line) - 1]) % 256 = 0
       /\ SendCommandRaw(command_code, params) = SendCommandAck(<<command_code>> \o params)

\* A frame of test-nfc-with-ack whose data sum passes 512.
C20_Witness ==
    /\ cpc = "sent"
    /\ encoder = "ack"
    /\ 212 + command_code + Sum(params) > 512

\* C21: send_command of card-emulation-raw and card-emulation-hybrid builds and writes
\* the frame for every parameter sequence of at most 253 bytes (length byte = number of
\* parameters + 2); for every longer one it raises, with nothing written to the port
\* and the receive buffer as it was.
C21_FrameLength ==
    encoder \in {"raw", "hybrid"} /\ cpc \notin {"issue", "start", "sent", "damaged", "decoded"} =>
       IF Len(params) <= 253
       THEN /\ cpc # "raised"
            /\ Len(written) = Len(params) + 9
            /\ written[4] = Len(params) + 2
            /\ written[4] < 256
       ELSE /\ cpc = "raised"
            /\ written = <<>>
            /\ line = stale
            /\ pending = <<>>

\* The first length past the limit, with bytes waiting in the receive buffer.
C21_Witness ==
    /\ cpc = "raised"
    /\ encoder = "raw"
    /\ Len(params) = 254
    /\ stale # <<>>

\* C22: write, ACK, response: when the chip answers the frame with the ACK and then a
\* valid response frame, send_command of card-emulation-raw and card-emulation-hybrid
\* returns the payload of that response frame.
C22_Original ==
    /\ cpc = "returned"
    /\ decoder \in {"raw", "hybrid"}
    /\ chip.acked
    /\ chip.noise = <<>>
    /\ stale = <<>>
    => decoded = Payload(chip.response)

\* C23: bytes that were in the receive buffer when the command was issued are never
\* returned as its response: a response frame left over from an earlier command does
\* not come back as the payload of this one, whichever script sends the command.
C23_Original ==
    cpc = "returned" /\ stale = ResponseFrame(StalePayload) =>
       decoded # Payload(StalePayload)

\* C29: in test-nfc-with-ack the ACK step does not lose the response: when the chip
\* sends the ACK and then a valid response frame, read_frame, called after read_ack
\* returned True, returns the payload of that frame, however the bytes were split
\* into arrival chunks.
C29_Original ==
    /\ cpc = "returned"
    /\ decoder = "ack"
    /\ chip.acked
    /\ chip.noise = <<>>
    => decoded = Payload(chip.response)

\* C30: the preamble scan finds a valid frame wherever it starts: read_response of
\* card-emulation-raw and read_frame of test-nfc-with-ack, started on noise bytes
\* (extra 00 bytes included) followed by a valid frame, return that frame's payload.
C30_Original ==
    /\ cpc = "returned"
    /\ \/ decoder = "raw" /\ ~chip.acked
       \/ decoder = "ack" /\ chip.acked /\ ack_buf = AckTarget
    => decoded = Payload(chip.response)

\* C24: in the session loop of every emulation script, inbound data that is the SELECT
\* APDU 00 A4 04 00 ... is answered with exactly 90 00, the READ BINARY APDU
\* 00 B0 00 00 with NDEF bytes followed by 90 00, and an APDU with another instruction
\* with exactly 6A 82, whether or not a status byte 00 leads the inbound data.
C24_Original ==
    cmd \in Apdus \cup {<<0>> \o a : a \in Apdus} =>
       LET apdu == IF cmd \in Apdus THEN cmd ELSE Tail(cmd) IN
       CASE apdu = SelectApdu -> resp = SwOk
         [] apdu = ReadBinaryApdu ->
               /\ Len(resp) > 2
               /\ resp = Take(ndef_msg, Len(resp) - 2) \o SwOk
         [] OTHER -> resp = SwNotSupported

\* C25: within a session of card-emulation-raw or card-emulation-hybrid, the k-th
\* READ BINARY is answered with the k-th chunk of ndef_msg (50 bytes, the offset
\* advancing by 50 each time and starting at 0 in every session) followed by 90 00.
\* Stated for sessions whose READ BINARY commands all arrive after a status byte, the
\* form these scripts parse.
C25_Original ==
    /\ emulator \in {"raw", "hybrid"}
    /\ \A k \in 1..Len(reads) : reads[k].data = <<0>> \o ReadBinaryApdu
    => \A k \in 1..Len(reads) :
          reads[k].reply =
             SubSeq(ndef_msg, (k - 1) * ChunkRaw + 1, Min(k * ChunkRaw, Len(ndef_msg)))
             \o SwOk

\* C26: a session of card-emulation-raw or card-emulation-hybrid ends exactly when
\* tg_get_data brings no inbound data or tg_set_data fails to send the reply (either
\* returns nothing, or raises): the session loop is left and the listening loop calls
\* tg_init_as_target again.  An init that brings no response is followed by another
\* init, and nothing but Ctrl+C stops the script.
C26_SessionEnds ==
    [][/\ emulator \in {"raw", "hybrid"} /\ spc \in {"get", "set"} /\ spc' = "listen" =>
             outcome' \in [call : {spc}, result : {"nothing", "raises"}]
       /\ /\ emulator \in {"raw", "hybrid"}
          /\ spc \in {"get", "set"}
          /\ outcome'.result \in {"nothing", "raises"}
          => spc' = "listen"
       /\ /\ emulator \in {"raw", "hybrid"}
          /\ spc = "listen"
          /\ outcome'.result \in {"nothing", "raises"}
          => spc' = "listen"
       /\ emulator \in {"raw", "hybrid"} /\ spc = "listen" /\ spc' = "get" =>
             outcome' = [call |-> "init", result |-> "data"]
       /\ emulator \in {"raw", "hybrid"} /\ spc' = "stopped" /\ spc # "stopped" =>
             outcome'.result = "interrupt"
      ]_vars

\* A session of two commands that ended because the second reply could not be sent;
\* the script listens again.
C26_Witness ==
    /\ emulator = "hybrid"
    /\ spc = "listen"
    /\ outcome = [call |-> "set", result |-> "nothing"]
    /\ cmd_count = 2

\* C27 as stated: for every text short enough for one-byte lengths, the TLV-wrapped
\* message is exactly 8 bytes longer than the text.
C27_Original ==
    npc = "built" /\ ShortForm(text) => Len(message) = Len(text) + 8

\* C27: for every text short enough for one-byte lengths (at most 247 bytes), the
\* TLV-wrapped message of both writer scripts is exactly 10 bytes longer than the text:
\* 03, the length byte, 7 bytes of record header, the text, FE.
C27_TotalLength ==
    npc = "built" /\ ShortForm(text) => Len(message) = Len(text) + 10

\* The longest short-form text, wrapped by write-ndef-formatted.
C27_Witness ==
    /\ npc = "built"
    /\ writer = "formatted"
    /\ Len(text) = 247
    /\ Len(message) = 257

\* C28 as stated: the message begins 03 <len> D1 01 <len-3> 54 02 65 6E, the payload
\* length byte being <len> - 3 and the text length + 3, and ends with FE.
C28_Original ==
    npc = "built" /\ ShortForm(text) =>
       /\ SubSeq(message, 1, 9) = <<3, message[2], 209, 1, message[2] - 3, 84, 2, 101, 110>>
       /\ message[5] = Len(text) + 3
       /\ message[Len(message)] = 254

\* C28: for every text short enough for one-byte lengths, the message begins
\* 03 <len> D1 01 <len-4> 54 02 65 6E, where <len> is the length of the record (text
\* length + 7) and the payload length byte is <len> - 4 = text length + 3; the text
\* follows and the message ends with FE.
C28_Layout ==
    npc = "built" /\ ShortForm(text) =>
       /\ SubSeq(message, 1, 9) = <<3, message[2], 209, 1, message[2] - 4, 84, 2, 101, 110>>
       /\ message[2] = Len(text) + 7
       /\ message[5] = Len(text) + 3
       /\ SubSeq(message, 10, Len(message) - 1) = text
       /\ message[Len(message)] = 254

\* A text of 100 bytes wrapped by write-ndef-smart: length byte 6B, payload length 67.
C28_Witness ==
    /\ npc = "built"
    /\ writer = "smart"
    /\ Len(text) = 100
    /\ message[2] = 107
    /\ message[5] = 103

\* C38: the session of card-emulation-raw and card-emulation-hybrid is strictly
\* request/response: inbound data of at least 2 bytes (after the status byte is
\* dropped) is followed by exactly one tg_set_data before the next tg_get_data,
\* tg_set_data is called only for inbound data just received, and after a tg_set_data
\* that failed nothing more is requested or sent in that session (the next call is
\* tg_init_as_target).
C38_RequestResponse ==
    [][/\ /\ emulator \in {"raw", "hybrid"}
          /\ outcome' = [call |-> "get", result |-> "data"]
          /\ Len(StripStatus(cmd')) >= 2
          => spc' = "set" /\ resp' # <<>>
       /\ emulator \in {"raw", "hybrid"} /\ spc' = "set" =>
             /\ spc = "get"
             /\ outcome' = [call |-> "get", result |-> "data"]
             /\ cmd_count' = cmd_count + 1
       /\ emulator \in {"raw", "hybrid"} /\ spc = "set" /\ spc' \notin {"listen", "stopped"} =>
             /\ spc' = "get"
             /\ outcome' = [call |-> "set", result |-> "data"]
       /\ /\ emulator \in {"raw", "hybrid"}
          /\ outcome' \in [call : {"set"}, result : {"nothing", "raises"}]
          => spc' = "listen"
       /\ emulator \in {"raw", "hybrid"} /\ spc = "listen" /\ spc' \notin {"listen", "stopped"} =>
             /\ outcome'.call = "init"
             /\ tap_count' = tap_count + 1
      ]_vars

\* The second command of a session has been answered and the third is awaited.
C38_Witness ==
    /\ emulator = "raw"
    /\ spc = "get"
    /\ cmd_count = 2
    /\ outcome = [call |-> "set", result |-> "data"]
    /\ resp = SwOk

\* C39: inbound data shorter than 2 bytes once the leading status byte is dropped is
\* not answered and does not close the session (raw, hybrid): nothing is handed to
\* tg_set_data and tg_get_data is called again; the session still ends as soon as a
\* later tg_get_data returns nothing.
C39_ShortData ==
    [][/\ /\ emulator \in {"raw", "hybrid"}
          /\ outcome' = [call |-> "get", result |-> "data"]
          /\ Len(StripStatus(cmd')) < 2
          => spc' = "get" /\ resp' = <<>> /\ tap_count' = tap_count
       /\ /\ emulator \in {"raw", "hybrid"}
          /\ spc = "get"
          /\ outcome' = [call |-> "get", result |-> "nothing"]
          => spc' = "listen"
      ]_vars

\* A session whose only inbound data was a lone status byte has ended for want of
\* data.
C39_Witness ==
    /\ emulator = "hybrid"
    /\ spc = "listen"
    /\ cmd = <<0>>
    /\ cmd_count = 1
    /\ outcome = [call |-> "get", result |-> "nothing"]

\* C31 as claimed: a debounced re-tap leaves the buffer as it is, and the window of a
\* uid runs from its last tap event: a detection goes on to a tap event only once that
\* window has elapsed, and always does so then.
C31_Original ==
    [][/\ (pc = "scan_debounced" /\ pc' # pc =>
              recent_taps' = recent_taps /\ since_tap' = since_tap)
       /\ (pc = "scan_dup" /\ pc' = "scan_record" =>
              since_tap[uid_hex] >= DebounceDs(config))
       /\ (pc = "scan_dup" /\ pc' = "scan_debounced" =>
              since_tap[uid_hex] < DebounceDs(config))
      ]_vars

\* C31 as amended: a debounced re-tap leaves the buffer as it is; while the record of
\* a uid's last tap event is retained (fewer than dedup_buffer_size taps recorded
\* since), a detection of that uid goes on to a tap event only once the window of that
\* tap event has elapsed; and a detection after the window has elapsed always does.
C31_Window ==
    [][/\ (pc = "scan_debounced" /\ pc' # pc =>
              recent_taps' = recent_taps /\ since_tap' = since_tap)
       /\ (pc = "scan_dup" /\ pc' = "scan_record" =>
              \/ since_tap[uid_hex] >= DebounceDs(config)
              \/ recorded_since[uid_hex] >= config.dedup_buffer_size)
       /\ (pc = "scan_dup" /\ pc' = "scan_debounced" =>
              since_tap[uid_hex] < DebounceDs(config))
      ]_vars

\* A uid whose earlier tap is still in the buffer, its window elapsed, is about to be
\* recorded and reported again.
C31_Witness ==
    /\ pc = "scan_record"
    /\ config.dedup_buffer_size >= 1
    /\ since_tap[uid_hex] >= DebounceDs(config)
    /\ \E i \in DOMAIN recent_taps :
          recent_taps[i].uid = uid_hex /\ recent_taps[i].age >= DebounceDs(config)

\* C32: retry_count stays within 0 .. MAX_RETRIES, and it is MAX_RETRIES only where
\* the connection loop has been left for good: at the 'Max retries reached' event and
\* from there to the exit, where no connection attempt and no backoff wait begins.
C32_RetryRange ==
    /\ retry_count \in 0 .. MAX_RETRIES
    /\ (retry_count = MAX_RETRIES =>
           /\ pc \in {"retry_fatal"} \cup EndPcs
           /\ wait_time = 0 /\ until_end = 0
           /\ uart = "None" /\ open_ports = 0)

\* The counter has just reached the ceiling after a failure of an established
\* connection's reconnection attempts.
C32_Witness ==
    pc = "retry_fatal" /\ retry_count = MAX_RETRIES /\ ever_ready

\* C33: scanning happens only on a live connection.  Wherever the scan loop is, both
\* handles are set, the port is open and no error event has been written since
\* _initialize_hardware succeeded; the scan loop is entered only right after a ready
\* event, which is written once for each successful _initialize_hardware and never
\* otherwise; tap events are written only by the scan loop, and an error event always
\* leads out of it.
C33_LiveConnection ==
    /\ [](pc \in ScanPcs =>
             /\ uart = "Serial" /\ pn532 = "PN532" /\ open_ports = 1
             /\ ever_ready
             /\ failures = 0 /\ nonfatal_events = 0 /\ fatal_kind = "none")
    /\ [][/\ (out' = "tap" => pc = "scan_emit_tap" /\ pc' = "scan_check")
          /\ (out' = "ready" <=> pc = "emit_ready" /\ pc' = "reset_retry")
          /\ (pc' = "emit_ready" /\ pc # "emit_ready" <=>
                 pc = "init_pn532" /\ pn532' = "PN532" /\ pc' \notin {"retry_emit", "fatal_emit"})
          /\ (pc' \in ScanPcs /\ pc \notin ScanPcs => pc = "reset_retry")
          /\ (pc' = "reset_retry" /\ pc # "reset_retry" => out' = "ready")
          /\ (out' \in {"error_nonfatal", "error_fatal"} =>
                 pc' \notin ScanPcs \cup {"emit_ready", "reset_retry"})
          /\ (pc' = "scan_poll" /\ pc # "scan_poll" => uart' = "Serial" /\ pn532' = "PN532")
         ]_vars

\* A tap event has been written on a connection that was established after failures.
C33_Witness ==
    /\ out = "tap"
    /\ prior_failures >= 1
    /\ uart = "Serial" /\ pn532 = "PN532"

\* C34: at most one serial port is open at any time and it is the one self.uart
\* refers to; when _initialize_hardware is about to open the port, no port is open and
\* both handles are None, whatever the earlier attempts did.
C34_OnePort ==
    /\ open_ports \in {0, 1}
    /\ (open_ports = 1 <=> uart = "Serial")
    /\ (pn532 = "PN532" => uart = "Serial")
    /\ (pc \in {"init_open"} \cup SleepPcs =>
           open_ports = 0 /\ uart = "None" /\ pn532 = "None")

\* The port is about to be opened again after a connection that had been established
\* failed.
C34_Witness ==
    /\ pc = "init_open"
    /\ ever_ready
    /\ failures = 1
    /\ open_ports = 0

\* C35: the shutdown event is the last operational event: once it has been written,
\* no tap event, no heartbeat event and no ready event is written.
C35_Original ==
    [][shutdown_events >= 1 => out' \notin {"tap", "heartbeat", "ready"}]_vars

\* C36: the exit status agrees with the event stream: the process has exited with
\* status 1 if and only if a fatal error event was written during the run, and with
\* status 0 if and only if none was.
C36_Original ==
    pc = "exited" =>
       /\ (exit_code = 1 <=> fatal_kind # "none")
       /\ (exit_code = 0 <=> fatal_kind = "none")

====
